---- MODULE Spec2Model ----
(***************************************************************************)
(* A model of prettytable-rs (fork hcpl/prettytable-rs, generic over the   *)
(* cell content): cell contents, cells, rows, the table with its title and *)
(* format, borrowed table slices and the render of a slice to a sink.      *)
(*                                                                         *)
(* A string is a sequence of characters, a character a one-element string  *)
(* ("a", "\n") or the name of a code point outside ASCII ("U+043F").        *)
(* Indices of the Rust source are 0-based, sequences here are 1-based: an   *)
(* index i of the source is the position i + 1 of the sequence.             *)
(***************************************************************************)
EXTENDS Integers, Sequences, FiniteSets, TLC

VARIABLES
    format,     \* Table.format: the table's TableFormat
    titles,     \* Table.titles: NoTitle or the title row
    rows,       \* Table.rows: the sequence of rows
    view,       \* the live TableSlice borrowed from the table, or NoView
    out,        \* what the render just made wrote to its sink, NoOut otherwise
    last,       \* the last operation, its arguments and its result
    panicked,   \* a panic has unwound the program
    row,        \* a Row on its own (the row operations)
    value,      \* a string handed to CellLines::from
    content,    \* a CellLines on its own (the cell content operations)
    term        \* the answers of the terminal a cell is printed to with its style

vars == <<format, titles, rows, view, out, last, panicked, row, value, content, term>>

tableVars == <<format, titles, rows, view, out, panicked>>

----------------------------------------------------------------------------
(* Bounds of the model *)

\* rows of the table
MaxRows == 2

\* cells a row of the table may grow to by add_cell
MaxCells == 1

\* cells of the row of SpecRow
MaxRowCells == 3

\* characters of a string handed to CellLines::from
MaxStrLen == 3

\* the style attributes of a cell printed to a terminal
MaxStyle == 2

\* the characters of a style specifier
MaxSpecLen == 4

\* the column width a cell is printed in
MaxColWidth == 10

----------------------------------------------------------------------------
(* Integers and sequences *)

Min(a, b) == IF a < b THEN a ELSE b

Max(a, b) == IF a > b THEN a ELSE b

\* the greatest element of a finite set of naturals, 0 for the empty set
SetMax(S) == IF S = {} THEN 0 ELSE CHOOSE m \in S : \A x \in S : x <= m

\* n copies of the character ch
Repeat(ch, n) == [i \in 1..n |-> ch]

RECURSIVE Flatten(_)
\* the concatenation of a sequence of sequences
Flatten(ss) == IF ss = <<>> THEN <<>> ELSE Head(ss) \o Flatten(Tail(ss))

\* the sequences over S of length at most n
SeqsUpTo(S, n) == UNION {[1..k -> S] : k \in 0..n}

----------------------------------------------------------------------------
(* Characters *)

NL == "\n"

\* the letters of "привет"
Cyrillic == {"U+043F", "U+0440", "U+0438", "U+0432", "U+0435", "U+0442"}

\* the characters of "由系统自动更新"
CJK == {"U+7531", "U+7CFB", "U+7EDF", "U+81EA", "U+52A8", "U+66F4", "U+65B0"}

\* the box drawing characters of tests::test_unicode_separators
BoxDrawing ==
    {"U+2500", "U+2502", "U+250C", "U+2510", "U+2514", "U+2518", "U+251C", "U+2524",
     "U+252C", "U+2534", "U+253C"}

\* the number of bytes of a character in UTF-8
Utf8Len(ch) ==
    IF ch \in Cyrillic THEN 2 ELSE IF ch \in CJK \cup BoxDrawing THEN 3 ELSE 1

\* the number of terminal columns of a character
CharWidth(ch) == IF ch \in CJK THEN 2 ELSE 1

RECURSIVE StringLen(_)
\* String::len: the length of a string in bytes
StringLen(s) == IF s = <<>> THEN 0 ELSE Utf8Len(Head(s)) + StringLen(Tail(s))

RECURSIVE DisplayWidth(_)
\* UnicodeWidthStr::width: the number of terminal columns of a string
DisplayWidth(s) == IF s = <<>> THEN 0 ELSE CharWidth(Head(s)) + DisplayWidth(Tail(s))

RECURSIVE SplitLines(_, _, _)
\* str::lines: the lines of s, split at "\n"; a last line without "\n" counts
\* when it is not empty. cur is the line being read, acc the lines read.
SplitLines(s, cur, acc) ==
    IF s = <<>>
    THEN IF cur = <<>> THEN acc ELSE Append(acc, cur)
    ELSE IF Head(s) = NL
         THEN SplitLines(Tail(s), <<>>, Append(acc, cur))
         ELSE SplitLines(Tail(s), Append(cur, Head(s)), acc)

----------------------------------------------------------------------------
(* cell_content.rs: CellLines *)

\* #[derive(Default)] CellLines: no line
CellLines_default == [lines |-> <<>>]

\* From<T: ToString> for CellLines
CellLines_from(s) == [lines |-> SplitLines(s, <<>>, <<>>)]

RECURSIVE MaxLen(_)
\* lines.iter().map(String::len).max().unwrap_or(0)
MaxLen(lines) ==
    IF lines = <<>> THEN 0 ELSE Max(StringLen(Head(lines)), MaxLen(Tail(lines)))

\* CellContent::get_width for CellLines
CellLines_get_width(c) == MaxLen(c.lines)

\* CellContent::get_height for CellLines
CellLines_get_height(c) == Len(c.lines)

\* CellContent::get_lines for CellLines
CellLines_get_lines(c) == c.lines

----------------------------------------------------------------------------
(* cell.rs: Cell *)

Alignments == {"LEFT", "CENTER", "RIGHT"}

\* Cell::new_align
Cell_new_align(c, align) == [content |-> c, align |-> align, style |-> <<>>]

\* Cell::new
Cell_new(c) == Cell_new_align(c, "LEFT")

\* Default for Cell
Cell_default == [content |-> CellLines_default, align |-> "LEFT", style |-> <<>>]

\* Cell::with_style
Cell_with_style(cell, attr) == [cell EXCEPT !.style = Append(@, attr)]

\* Cell::get_height
Cell_get_height(cell) == CellLines_get_height(cell.content)

\* Cell::get_width
Cell_get_width(cell) == CellLines_get_width(cell.content)

----------------------------------------------------------------------------
(* row.rs: Row, the sequence of its cells *)

\* Row::empty, Default for Row
Row_empty == <<>>

RECURSIVE HeightFrom(_, _)
\* the loop of Row::get_height over the cells, from the height h
HeightFrom(cells, h) ==
    IF cells = <<>> THEN h
    ELSE HeightFrom(Tail(cells),
                    IF Cell_get_height(Head(cells)) > h
                    THEN Cell_get_height(Head(cells)) ELSE h)

\* Row_get_height without the floor of one line
Row_get_height_NoFloor(r) == HeightFrom(r, 0)

\* Row::get_height
Row_get_height(r) == HeightFrom(r, 1)

\* Row::get_cell_width, column 0-based
Row_get_cell_width(r, column) ==
    IF column < Len(r) THEN Cell_get_width(r[column + 1]) ELSE 0

\* Vec::insert: x at the 0-based index, the later elements shifted by one
VecInsert(s, index, x) ==
    [i \in 1..(Len(s) + 1) |->
        IF i < index + 1 THEN s[i] ELSE IF i = index + 1 THEN x ELSE s[i - 1]]

\* Vec::remove: the element at the 0-based index taken out
VecRemove(s, index) ==
    [i \in 1..(Len(s) - 1) |-> IF i < index + 1 THEN s[i] ELSE s[i + 1]]

\* Row::add_cell
Row_add_cell(r, cell) == Append(r, cell)

\* Row::insert_cell
Row_insert_cell(r, index, cell) ==
    IF index < Len(r) THEN VecInsert(r, index, cell) ELSE Row_add_cell(r, cell)

\* Row::remove_cell
Row_remove_cell(r, index) ==
    IF index < Len(r) THEN VecRemove(r, index) ELSE r

\* Row_set_cell that appends the cell when the column is beyond the row
Row_set_cell_Push(r, cell, column) ==
    IF column >= Len(r)
    THEN [ok |-> TRUE, row |-> Append(r, cell)]
    ELSE [ok |-> TRUE, row |-> [r EXCEPT ![column + 1] = cell]]

\* Row::set_cell: the row and whether the result is Ok
Row_set_cell(r, cell, column) ==
    IF column >= Len(r)
    THEN [ok |-> FALSE, row |-> r]
    ELSE [ok |-> TRUE, row |-> [r EXCEPT ![column + 1] = cell]]

----------------------------------------------------------------------------
(* format.rs: TableFormat. The file is not among the sources; the format   *)
(* is modelled from the specification, sections 3 and 4.3.                  *)

\* an absent column separator or border
NoChar == "NONE"

\* an absent line separator
NoLine == [line |-> NoChar, junc |-> NoChar, ljunc |-> NoChar, rjunc |-> NoChar]

\* LineSeparator::new(line, junc, ljunc, rjunc)
LineSeparator_new(line, junc, ljunc, rjunc) ==
    [line |-> line, junc |-> junc, ljunc |-> ljunc, rjunc |-> rjunc]

LinePositions == {"Top", "Title", "Intern", "Bottom"}

\* consts::FORMAT_DEFAULT
FORMAT_DEFAULT ==
    [csep |-> "|", lborder |-> "|", rborder |-> "|",
     lsep |-> [p \in LinePositions |->
                 IF p = "Title" THEN LineSeparator_new("=", "+", "+", "+")
                 ELSE LineSeparator_new("-", "+", "+", "+")],
     pad_left |-> 1, pad_right |-> 1, indent |-> 0]

\* consts::FORMAT_CLEAN
FORMAT_CLEAN ==
    [csep |-> " ", lborder |-> NoChar, rborder |-> NoChar,
     lsep |-> [p \in LinePositions |-> NoLine],
     pad_left |-> 1, pad_right |-> 1, indent |-> 0]

\* consts::FORMAT_NO_LINESEP: the rules of the top and of the bottom only
FORMAT_NO_LINESEP ==
    [csep |-> "|", lborder |-> "|", rborder |-> "|",
     lsep |-> [p \in LinePositions |->
                 IF p \in {"Top", "Bottom"} THEN LineSeparator_new("-", "+", "+", "+")
                 ELSE NoLine],
     pad_left |-> 1, pad_right |-> 1, indent |-> 0]

\* consts::FORMAT_NO_COLSEP: every rule, no border and no column separator
FORMAT_NO_COLSEP ==
    [csep |-> NoChar, lborder |-> NoChar, rborder |-> NoChar,
     lsep |-> [p \in LinePositions |->
                 IF p = "Title" THEN LineSeparator_new("=", "+", "+", "+")
                 ELSE LineSeparator_new("-", "+", "+", "+")],
     pad_left |-> 1, pad_right |-> 1, indent |-> 0]

\* the format FormatBuilder builds in tests::test_unicode_separators: box
\* drawing borders and rules, no separator set for the Title position
FORMAT_BOX ==
    [csep |-> "U+2502", lborder |-> "U+2502", rborder |-> "U+2502",
     lsep |-> [p \in LinePositions |->
                 IF p = "Top" THEN LineSeparator_new("U+2500", "U+252C", "U+250C", "U+2510")
                 ELSE IF p = "Intern"
                 THEN LineSeparator_new("U+2500", "U+253C", "U+251C", "U+2524")
                 ELSE IF p = "Bottom"
                 THEN LineSeparator_new("U+2500", "U+2534", "U+2514", "U+2518")
                 ELSE NoLine],
     pad_left |-> 1, pad_right |-> 1, indent |-> 0]

\* TableFormat::padding(left, right)
TableFormat_padding(fmt, left, right) == [fmt EXCEPT !.pad_left = left, !.pad_right = right]

\* TableFormat::indent(spaces)
TableFormat_indent(fmt, spaces) == [fmt EXCEPT !.indent = spaces]

\* LineSeparatorAt with nothing under the title row of a format without a
\* Title separator
LineSeparatorAt_Absent(fmt, pos) == fmt.lsep[pos]

\* the separator print_line_separator takes for a position: tests::
\* test_unicode_separators has the Intern separator written under the title
\* row of a format without a Title separator
LineSeparatorAt(fmt, pos) ==
    IF pos = "Title" /\ fmt.lsep["Title"] = NoLine THEN fmt.lsep["Intern"]
    ELSE fmt.lsep[pos]

\* TableFormat::get_column_separator
get_column_separator(fmt, pos) ==
    IF pos = "Left" THEN fmt.lborder
    ELSE IF pos = "Right" THEN fmt.rborder ELSE fmt.csep

\* TableFormat::print_column_separator: the character of the position, when present
print_column_separator(fmt, pos) ==
    IF get_column_separator(fmt, pos) = NoChar THEN <<>>
    ELSE <<get_column_separator(fmt, pos)>>

RECURSIVE LineSeparatorColumns(_, _, _)
\* the columns of a line separator: the fill over each column and its padding,
\* the junction between two columns when there is a column separator
LineSeparatorColumns(fmt, l, col_width) ==
    IF col_width = <<>> THEN <<>>
    ELSE Repeat(l.line, Head(col_width) + fmt.pad_left + fmt.pad_right)
         \o (IF fmt.csep # NoChar /\ Tail(col_width) # <<>> THEN <<l.junc>> ELSE <<>>)
         \o LineSeparatorColumns(fmt, l, Tail(col_width))

\* TableFormat::print_line_separator: nothing when the position has no separator
print_line_separator(fmt, col_width, pos) ==
    LET l == LineSeparatorAt(fmt, pos)
    IN  IF l = NoLine THEN <<>>
        ELSE Repeat(" ", fmt.indent)
             \o (IF fmt.lborder # NoChar THEN <<l.ljunc>> ELSE <<>>)
             \o LineSeparatorColumns(fmt, l, col_width)
             \o (IF fmt.rborder # NoChar THEN <<l.rjunc>> ELSE <<>>)
             \o <<NL>>

----------------------------------------------------------------------------
(* utils.rs: print_align. The file is not among the sources; the alignment *)
(* is modelled from the specification, section 4.1.                         *)

\* the number of fill characters written before the text
LeftFill(align, nfill) ==
    IF align = "LEFT" THEN 0 ELSE IF align = "RIGHT" THEN nfill ELSE nfill \div 2

\* print_align(out, align, text, fill, size, skip_right_fill)
print_align(align, text, fill, size, skip_right_fill) ==
    LET text_len == DisplayWidth(text)
        nfill == IF text_len < size THEN size - text_len ELSE 0
        n == LeftFill(align, nfill)
    IN  Repeat(fill, n) \o text
        \o (IF skip_right_fill THEN <<>> ELSE Repeat(fill, nfill - n))

----------------------------------------------------------------------------
(* cell.rs, row.rs: printing *)

\* Cell_print that writes nothing for a line the cell does not have
Cell_print_NoBlank(cell, idx, col_width, skip_right_fill) ==
    LET lines == CellLines_get_lines(cell.content)
    IN  IF idx < Len(lines)
        THEN print_align(cell.align, lines[idx + 1], " ", col_width, skip_right_fill)
        ELSE <<>>

\* Cell_print that aligns to the left whatever the alignment of the cell
Cell_print_Left(cell, idx, col_width, skip_right_fill) ==
    LET lines == CellLines_get_lines(cell.content)
        c == IF idx < Len(lines) THEN lines[idx + 1] ELSE <<>>
    IN  print_align("LEFT", c, " ", col_width, skip_right_fill)

\* Cell::print: the line idx (0-based) of the cell, aligned in col_width
Cell_print(cell, idx, col_width, skip_right_fill) ==
    LET lines == CellLines_get_lines(cell.content)
        c == IF idx < Len(lines) THEN lines[idx + 1] ELSE <<>>
    IN  print_align(cell.align, c, " ", col_width, skip_right_fill)

\* Row::get_cell: the cell at the 0-based index, the default cell of
\* Row::__print when there is none
CellOrDefault(r, j) == IF j < Len(r) THEN r[j + 1] ELSE Cell_default

RECURSIVE RowLineColumns_EveryCell(_, _, _, _, _)
\* RowLineColumns going on after the last column width while the row has cells
RowLineColumns_EveryCell(r, fmt, col_width, i, j) ==
    IF j >= Max(Len(col_width), Len(r)) THEN <<>>
    ELSE LET skip_r_fill == (j = Len(col_width) - 1)
                            /\ get_column_separator(fmt, "Right") = NoChar
         IN  Repeat(" ", fmt.pad_left)
             \o Cell_print(CellOrDefault(r, j), i,
                           IF j < Len(col_width) THEN col_width[j + 1] ELSE 0, skip_r_fill)
             \o Repeat(" ", fmt.pad_right)
             \o (IF j < Len(col_width) - 1
                 THEN print_column_separator(fmt, "Intern") ELSE <<>>)
             \o RowLineColumns_EveryCell(r, fmt, col_width, i, j + 1)

RECURSIVE RowLineColumns_NoPlaceholder(_, _, _, _, _)
\* RowLineColumns that writes the padding alone, without the blank of the
\* width of the column, for a column the row has no cell in
RowLineColumns_NoPlaceholder(r, fmt, col_width, i, j) ==
    IF j >= Len(col_width) THEN <<>>
    ELSE LET skip_r_fill == (j = Len(col_width) - 1)
                            /\ get_column_separator(fmt, "Right") = NoChar
         IN  Repeat(" ", fmt.pad_left)
             \o (IF j < Len(r)
                 THEN Cell_print(r[j + 1], i, col_width[j + 1], skip_r_fill)
                 ELSE <<>>)
             \o Repeat(" ", fmt.pad_right)
             \o (IF j < Len(col_width) - 1
                 THEN print_column_separator(fmt, "Intern") ELSE <<>>)
             \o RowLineColumns_NoPlaceholder(r, fmt, col_width, i, j + 1)

RECURSIVE RowLineColumns(_, _, _, _, _)
\* the loop of Row::__print over the columns j..col_width.len() of the line i
RowLineColumns(r, fmt, col_width, i, j) ==
    IF j >= Len(col_width) THEN <<>>
    ELSE LET skip_r_fill == (j = Len(col_width) - 1)
                            /\ get_column_separator(fmt, "Right") = NoChar
         IN  Repeat(" ", fmt.pad_left)
             \o Cell_print(CellOrDefault(r, j), i, col_width[j + 1], skip_r_fill)
             \o Repeat(" ", fmt.pad_right)
             \o (IF j < Len(col_width) - 1
                 THEN print_column_separator(fmt, "Intern") ELSE <<>>)
             \o RowLineColumns(r, fmt, col_width, i, j + 1)

\* RowLine without the border on the right
RowLine_NoRightBorder(r, fmt, col_width, i) ==
    Repeat(" ", fmt.indent)
    \o print_column_separator(fmt, "Left")
    \o RowLineColumns(r, fmt, col_width, i, 0)
    \o <<NL>>

\* the body of the loop of Row::__print: the line i of the row
RowLine(r, fmt, col_width, i) ==
    Repeat(" ", fmt.indent)
    \o print_column_separator(fmt, "Left")
    \o RowLineColumns(r, fmt, col_width, i, 0)
    \o print_column_separator(fmt, "Right")
    \o <<NL>>

\* Row_print_Subtractions with col_width.len() - 1 evaluated once for every
\* line, before the loop over the columns
Row_print_Subtractions_Hoisted(r, col_width) ==
    {<<Len(col_width), 1>> : i \in 0..(Row_get_height(r) - 1)}

\* the operands <<a, b>> of the usize subtractions a - b that Row::__print
\* evaluates: col_width.len() - 1, in the body of the loop over the columns j
\* of each line i
Row_print_Subtractions(r, col_width) ==
    {<<Len(col_width), 1>> :
        p \in (0..(Row_get_height(r) - 1)) \X (0..(Len(col_width) - 1))}

\* the indexings <<j, n>> of the slice col_width of n elements at j that
\* Row::__print evaluates: col_width[j] in the loop over the columns
Row_print_Indexings(r, col_width) ==
    {<<p[2], Len(col_width)>> :
        p \in (0..(Row_get_height(r) - 1)) \X (0..(Len(col_width) - 1))}

\* Row::print: the lines 0..get_height() of the row
Row_print(r, fmt, col_width) ==
    Flatten([i \in 1..Row_get_height(r) |-> RowLine(r, fmt, col_width, i - 1)])

----------------------------------------------------------------------------
(* lib.rs: TableSlice. A slice borrows the format and the title of the     *)
(* table and views len rows of the table's row buffer from the row ptr on  *)
(* (0-based).                                                               *)

\* the rows a slice views
SliceRows(s) == SubSeq(rows, s.ptr + 1, s.ptr + s.len)

\* AsRef<TableSlice> for Table: the view of the whole table
Table_as_ref ==
    [format |-> format, titles |-> titles, ptr |-> 0, len |-> Len(rows)]

RECURSIVE ColumnNumFrom(_, _)
\* the loop of TableSlice::get_column_num over the rows, from the count cnum
ColumnNumFrom(rs, cnum) ==
    IF rs = <<>> THEN cnum
    ELSE ColumnNumFrom(Tail(rs), IF Len(Head(rs)) > cnum THEN Len(Head(rs)) ELSE cnum)

\* TableSlice::get_column_num
get_column_num(s) == ColumnNumFrom(SliceRows(s), 0)

RECURSIVE ColumnWidthFrom(_, _, _)
\* the loop of TableSlice::get_column_width over the rows, from the width
ColumnWidthFrom(rs, col_idx, width) ==
    IF rs = <<>> THEN width
    ELSE ColumnWidthFrom(Tail(rs), col_idx,
                         IF Row_get_cell_width(Head(rs), col_idx) > width
                         THEN Row_get_cell_width(Head(rs), col_idx) ELSE width)

\* get_column_width with the title left out
get_column_width_NoTitle(s, col_idx) == ColumnWidthFrom(SliceRows(s), col_idx, 0)

\* TableSlice::get_column_width
get_column_width(s, col_idx) ==
    ColumnWidthFrom(SliceRows(s), col_idx,
                    IF s.titles # <<>>
                    THEN Row_get_cell_width(s.titles[1], col_idx) ELSE 0)

\* get_all_column_width with the widths of the title and the first row only,
\* as widths kept from the time the first row was added would be
get_all_column_width_FirstRow(s) ==
    [i \in 1..get_column_num(s) |->
        ColumnWidthFrom(SubSeq(SliceRows(s), 1, Min(1, s.len)), i - 1,
                        IF s.titles # <<>>
                        THEN Row_get_cell_width(s.titles[1], i - 1) ELSE 0)]

\* the indexings <<i, n>> of the Vec col_width of n elements at i that
\* get_all_column_width evaluates: col_width[i] for i in 0..colnum
get_all_column_width_Indexings(s) ==
    {<<i, get_column_num(s)>> : i \in 0..(get_column_num(s) - 1)}

\* TableSlice::get_all_column_width
get_all_column_width(s) ==
    [i \in 1..get_column_num(s) |-> get_column_width(s, i - 1)]

\* one part of a render: what it is, the row it belongs to, the bytes written
Part(kind, index, bytes) == [kind |-> kind, index |-> index, bytes |-> bytes]

\* out.flush()
Flush == Part("Flush", 0, <<>>)

RECURSIVE PrintRows_EveryRow(_, _, _, _)
\* PrintRows with an Intern separator after every row, the last one included
PrintRows_EveryRow(rs, fmt, col_width, i) ==
    IF rs = <<>> THEN <<>>
    ELSE <<Part("Row", i, Row_print(Head(rs), fmt, col_width)),
           Part("Intern", i, print_line_separator(fmt, col_width, "Intern"))>>
         \o PrintRows_EveryRow(Tail(rs), fmt, col_width, i + 1)

RECURSIVE PrintRows(_, _, _, _)
\* the loop of TableSlice::__print over the rows, i the index of the first
PrintRows(rs, fmt, col_width, i) ==
    IF rs = <<>> THEN <<>>
    ELSE <<Part("Row", i, Row_print(Head(rs), fmt, col_width))>>
         \o (IF Tail(rs) # <<>>
             THEN <<Part("Intern", i, print_line_separator(fmt, col_width, "Intern"))>>
             ELSE <<>>)
         \o PrintRows(Tail(rs), fmt, col_width, i + 1)

\* TableSlice::print: the column widths of the render and its parts in order
TableSlice_print(s) ==
    LET col_width == get_all_column_width(s)
    IN  [col_width |-> col_width,
         events |->
            <<Part("Top", 0, print_line_separator(s.format, col_width, "Top"))>>
            \o (IF s.titles # <<>>
                THEN <<Part("TitleRow", 0, Row_print(s.titles[1], s.format, col_width)),
                       Part("Title", 0,
                            print_line_separator(s.format, col_width, "Title"))>>
                ELSE <<>>)
            \o PrintRows(SliceRows(s), s.format, col_width, 0)
            \o <<Part("Bottom", 0, print_line_separator(s.format, col_width, "Bottom"))>>
            \o <<Flush>>]

\* the bytes a render wrote
Bytes(o) == Flatten([i \in 1..Len(o.events) |-> o.events[i].bytes])

\* a range argument of slice: a..b, a.., ..b or ..
Range(kind, start, end) == [kind |-> kind, start |-> start, end |-> end]

\* SliceIndex with the range clamped to the slice
SliceIndex_Clamp(len, r) ==
    LET end == IF r.kind \in {"Range", "RangeTo"} THEN Min(r.end, len) ELSE len
        start == IF r.kind \in {"Range", "RangeFrom"} THEN Min(r.start, end) ELSE 0
    IN  [ok |-> TRUE, start |-> start, len |-> end - start]

\* Index<Range..> for [Row]: the start and the length of the range in a slice
\* of len rows, or a panic
SliceIndex(len, r) ==
    LET start == IF r.kind \in {"Range", "RangeFrom"} THEN r.start ELSE 0
        end == IF r.kind \in {"Range", "RangeTo"} THEN r.end ELSE len
    IN  IF start > end \/ end > len
        THEN [ok |-> FALSE, start |-> 0, len |-> 0]
        ELSE [ok |-> TRUE, start |-> start, len |-> end - start]

\* Slice_slice counting the range from the first row of the table
Slice_slice_FromTable(s, r) ==
    [format |-> s.format, titles |-> s.titles,
     ptr |-> SliceIndex(s.len, r).start, len |-> SliceIndex(s.len, r).len]

\* Slice for TableSlice: slice; the range is valid
Slice_slice(s, r) ==
    [format |-> s.format, titles |-> s.titles,
     ptr |-> s.ptr + SliceIndex(s.len, r).start, len |-> SliceIndex(s.len, r).len]

----------------------------------------------------------------------------
(* lib.rs: Table *)

\* Table::add_row
Table_add_row(rs, r) == Append(rs, r)

\* Table_insert_row that appends whatever the index
Table_insert_row_Append(rs, index, r) == Table_add_row(rs, r)

\* Table::insert_row
Table_insert_row(rs, index, r) ==
    IF index < Len(rs) THEN VecInsert(rs, index, r) ELSE Table_add_row(rs, r)

\* Table_remove_row that takes the last row out when the index is beyond it
Table_remove_row_Last(rs, index) ==
    IF rs = <<>> THEN rs ELSE VecRemove(rs, Min(index, Len(rs) - 1))

\* Table::remove_row
Table_remove_row(rs, index) ==
    IF index < Len(rs) THEN VecRemove(rs, index) ELSE rs

\* Table_set_element whose new cell takes the alignment and the style of
\* the cell it replaces
Table_set_element_KeepAlign(rs, element, column, r) ==
    IF r >= Len(rs)
    THEN [ok |-> FALSE, rows |-> rs]
    ELSE LET old == IF column < Len(rs[r + 1]) THEN rs[r + 1][column + 1] ELSE Cell_default
             res == Row_set_cell(rs[r + 1], [old EXCEPT !.content = element], column)
         IN  [ok |-> res.ok, rows |-> [rs EXCEPT ![r + 1] = res.row]]

\* Table::set_element: the rows and whether the result is Ok
Table_set_element(rs, element, column, r) ==
    IF r >= Len(rs)
    THEN [ok |-> FALSE, rows |-> rs]
    ELSE LET res == Row_set_cell(rs[r + 1], Cell_new(element), column)
         IN  [ok |-> res.ok, rows |-> [rs EXCEPT ![r + 1] = res.row]]

----------------------------------------------------------------------------
(* The inputs of the operations *)

\* Cell::new("a")
CellA == Cell_new(CellLines_from(<<"a">>))

\* a right-aligned bold cell of two lines, "bc" and "def"
CellWide ==
    Cell_with_style(
        Cell_new_align(CellLines_from(<<"b", "c", NL, "d", "e", "f">>), "RIGHT"),
        "Bold")

CellPool == {CellA, CellWide}

\* the rows handed to the table: one cell, and a wide cell before a narrow one
RowPool == {<<CellA>>, <<CellWide, CellA>>}

\* the cell of the title k: "t1", "t2", "t3"
TitleCell(k) == Cell_new(CellLines_from(<<"t", k>>))

\* the title rows: the three titles of tests::table
TitlePool == {<<TitleCell("1"), TitleCell("2"), TitleCell("3")>>}

FormatPool == {FORMAT_DEFAULT, FORMAT_CLEAN}

\* the elements handed to set_element
ElementPool == {CellLines_from(<<"a">>)}

\* row indices, one beyond the greatest length included
RowIndices == 0..(MaxRows + 1)

\* the length of the longest row handed to the table
RowWidth == SetMax({Len(r) : r \in RowPool})

\* cell indices, one beyond the greatest length of a row included
CellIndices == 0..(Max(MaxCells, RowWidth) + 1)

\* the range arguments of slice
Ranges ==
    {Range("RangeFull", 0, 0)}
    \cup {Range("RangeFrom", a, 0) : a \in RowIndices}
    \cup {Range("RangeTo", 0, b) : b \in RowIndices}
    \cup {Range("Range", a, b) : a \in RowIndices, b \in RowIndices}

\* a cell of three lines, "a", "b" and "c"
CellTall == Cell_new(CellLines_from(<<"a", NL, "b", NL, "c">>))

\* the cells handed to the row on its own
RowCellPool == {Cell_default, CellA, CellTall}

\* cell indices of the row on its own, one beyond the greatest length included
RowCellIndices == 0..(MaxRowCells + 1)

\* "привет"
Privet == <<"U+043F", "U+0440", "U+0438", "U+0432", "U+0435", "U+0442">>

\* "由系统自动更新"
Cjk7 == <<"U+7531", "U+7CFB", "U+7EDF", "U+81EA", "U+52A8", "U+66F4", "U+65B0">>

\* the characters of the short strings: a letter, a Cyrillic letter, a CJK
\* character and the line break
Alphabet == {"a", "U+043F", "U+7531", NL}

\* the strings handed to CellLines::from
StringPool == SeqsUpTo(Alphabet, MaxStrLen) \cup {Privet, Cjk7}

\* a terminal: its answer to the attr call of each attribute of the style, to
\* the write of the content and to reset
Term_new(attr, write, reset) == [attr |-> attr, write |-> write, reset |-> reset]

\* no terminal
NoTerm == Term_new(<<>>, "Ok", "Ok")

\* no range: the argument recorded for an operation that is not slice
NoRange == Range("None", 0, 0)

\* the last operation called: its name, the index and the length it met (for
\* slice: the first row and the number of rows of the slice it was called
\* on), its range argument, and whether it returned
Op(op, idx, n, ok) == [op |-> op, idx |-> idx, n |-> n, ok |-> ok, arg |-> NoRange]

\* slice(r) called on a slice of n rows from the row ptr on
SliceOp(ptr, n, r, ok) == [Op("slice", ptr, n, ok) EXCEPT !.arg = r]

\* no render yet
NoOut == [col_width |-> <<>>, events |-> <<>>]

----------------------------------------------------------------------------
(* The table: Table::new and the operations of a program on it. A mutation *)
(* needs the table unborrowed: no slice of it is alive.                     *)

rowVars == <<row, value, content, term>>

Init ==
    /\ format = FORMAT_DEFAULT
    /\ titles = <<>>
    /\ rows = <<>>
    /\ view = <<>>
    /\ out = NoOut
    /\ last = Op("new", 0, 0, TRUE)
    /\ panicked = FALSE
    /\ row = Row_empty
    /\ value = <<>>
    /\ content = CellLines_default
    /\ term = NoTerm

\* a run works on the table or on a row on its own: the two share no state
OnTable == ~panicked /\ row = Row_empty

Unborrowed == OnTable /\ view = <<>>

\* table.add_row(r)
AddRow(r) ==
    /\ Unborrowed
    /\ Len(rows) < MaxRows
    /\ rows' = Table_add_row(rows, r)
    /\ last' = Op("add_row", Len(rows), Len(rows), TRUE)
    /\ out' = NoOut
    /\ UNCHANGED <<format, titles, view, panicked, rowVars>>

\* table.add_empty_row()
AddEmptyRow ==
    /\ Unborrowed
    /\ Len(rows) < MaxRows
    /\ rows' = Table_add_row(rows, Row_empty)
    /\ last' = Op("add_empty_row", Len(rows), Len(rows), TRUE)
    /\ out' = NoOut
    /\ UNCHANGED <<format, titles, view, panicked, rowVars>>

\* table.insert_row(index, r)
InsertRow(index, r) ==
    /\ Unborrowed
    /\ Len(rows) < MaxRows
    /\ rows' = Table_insert_row(rows, index, r)
    /\ last' = Op("insert_row", index, Len(rows), TRUE)
    /\ out' = NoOut
    /\ UNCHANGED <<format, titles, view, panicked, rowVars>>

\* table.remove_row(index)
RemoveRow(index) ==
    /\ Unborrowed
    /\ rows' = Table_remove_row(rows, index)
    /\ last' = Op("remove_row", index, Len(rows), TRUE)
    /\ out' = NoOut
    /\ UNCHANGED <<format, titles, view, panicked, rowVars>>

\* table.set_element(element, column, r)
SetElement(element, column, r) ==
    /\ Unborrowed
    /\ rows' = Table_set_element(rows, element, column, r).rows
    /\ last' = Op("set_element", r, Len(rows), Table_set_element(rows, element, column, r).ok)
    /\ out' = NoOut
    /\ UNCHANGED <<format, titles, view, panicked, rowVars>>

\* table.set_titles(t)
SetTitles(t) ==
    /\ Unborrowed
    /\ titles' = <<t>>
    /\ last' = Op("set_titles", 0, Len(rows), TRUE)
    /\ out' = NoOut
    /\ UNCHANGED <<format, rows, view, panicked, rowVars>>

\* table.unset_titles()
UnsetTitles ==
    /\ Unborrowed
    /\ titles' = <<>>
    /\ last' = Op("unset_titles", 0, Len(rows), TRUE)
    /\ out' = NoOut
    /\ UNCHANGED <<format, rows, view, panicked, rowVars>>

\* table.set_format(f)
SetFormat(f) ==
    /\ Unborrowed
    /\ format' = f
    /\ last' = Op("set_format", 0, Len(rows), TRUE)
    /\ out' = NoOut
    /\ UNCHANGED <<titles, rows, view, panicked, rowVars>>

\* a panic unwinds the program: the table and its slices are gone
PanicIn(op) ==
    /\ panicked' = TRUE
    /\ format' = FORMAT_DEFAULT
    /\ titles' = <<>>
    /\ rows' = <<>>
    /\ view' = <<>>
    /\ out' = NoOut
    /\ last' = op
    /\ UNCHANGED rowVars

\* the panic of an index out of bounds
Panic(op, idx, n) == PanicIn(Op(op, idx, n, FALSE))

\* table[i][j] = cell: IndexMut of the table, then of the row; an index out of
\* range panics
IndexMutCell(i, j, cell) ==
    /\ Unborrowed
    /\ IF i < Len(rows) /\ j < Len(rows[i + 1])
       THEN /\ rows' = [rows EXCEPT ![i + 1][j + 1] = cell]
            /\ last' = Op("index_mut_cell", i, Len(rows), TRUE)
            /\ out' = NoOut
            /\ UNCHANGED <<format, titles, view, panicked, rowVars>>
       ELSE Panic("index_mut_cell", i, Len(rows))

\* table[i] = r: IndexMut of the table; an index out of range panics
IndexMutRow(i, r) ==
    /\ Unborrowed
    /\ IF i < Len(rows)
       THEN /\ rows' = [rows EXCEPT ![i + 1] = r]
            /\ last' = Op("index_mut_row", i, Len(rows), TRUE)
            /\ out' = NoOut
            /\ UNCHANGED <<format, titles, view, panicked, rowVars>>
       ELSE Panic("index_mut_row", i, Len(rows))

\* table.get_mut_row(i).map(|r| r.add_cell(cell)): no row, nothing added
AddCell(i, cell) ==
    /\ Unborrowed
    /\ IF i < Len(rows)
       THEN /\ Len(rows[i + 1]) < MaxCells
            /\ rows' = [rows EXCEPT ![i + 1] = Row_add_cell(@, cell)]
       ELSE UNCHANGED rows
    /\ last' = Op("add_cell", i, Len(rows), i < Len(rows))
    /\ out' = NoOut
    /\ UNCHANGED <<format, titles, view, panicked, rowVars>>

\* table.as_ref(): borrows the whole table
AsRef ==
    /\ Unborrowed
    /\ view' = <<Table_as_ref>>
    /\ last' = Op("as_ref", 0, Len(rows), TRUE)
    /\ out' = NoOut
    /\ UNCHANGED <<format, titles, rows, panicked, rowVars>>

\* view.slice(r), table.slice(r) when no slice is alive: the new slice, or the
\* panic of the range index
Slice(r) ==
    /\ OnTable
    /\ LET s == IF view = <<>> THEN Table_as_ref ELSE view[1]
       IN  IF SliceIndex(s.len, r).ok
           THEN /\ view' = <<Slice_slice(s, r)>>
                /\ last' = SliceOp(s.ptr, s.len, r, TRUE)
                /\ out' = NoOut
                /\ UNCHANGED <<format, titles, rows, panicked, rowVars>>
           ELSE PanicIn(SliceOp(s.ptr, s.len, r, FALSE))

\* the slice goes out of scope
DropView ==
    /\ OnTable
    /\ view # <<>>
    /\ view' = <<>>
    /\ last' = Op("drop", 0, Len(rows), TRUE)
    /\ out' = NoOut
    /\ UNCHANGED <<format, titles, rows, panicked, rowVars>>

\* view.print(out), table.print(out) when no slice is alive
PrintTable ==
    /\ OnTable
    /\ LET s == IF view = <<>> THEN Table_as_ref ELSE view[1]
       IN  /\ out' = TableSlice_print(s)
           /\ last' = Op("print", s.ptr, s.len, TRUE)
    /\ UNCHANGED <<format, titles, rows, view, panicked, rowVars>>

----------------------------------------------------------------------------
(* A row on its own: Row::empty and the operations of a program on it *)

\* the table is as Table::new left it
TableUntouched ==
    /\ ~panicked
    /\ format = FORMAT_DEFAULT
    /\ titles = <<>>
    /\ rows = <<>>
    /\ view = <<>>
    /\ out = NoOut

\* row.add_cell(cell)
RowAddCell(cell) ==
    /\ TableUntouched
    /\ Len(row) < MaxRowCells
    /\ row' = Row_add_cell(row, cell)
    /\ last' = Op("add_cell", Len(row), Len(row), TRUE)
    /\ UNCHANGED <<tableVars, value, content, term>>

\* row.insert_cell(index, cell)
RowInsertCell(index, cell) ==
    /\ TableUntouched
    /\ Len(row) < MaxRowCells
    /\ row' = Row_insert_cell(row, index, cell)
    /\ last' = Op("insert_cell", index, Len(row), TRUE)
    /\ UNCHANGED <<tableVars, value, content, term>>

\* row.remove_cell(index)
RowRemoveCell(index) ==
    /\ TableUntouched
    /\ row' = Row_remove_cell(row, index)
    /\ last' = Op("remove_cell", index, Len(row), TRUE)
    /\ UNCHANGED <<tableVars, value, content, term>>

\* row.set_cell(cell, column)
RowSetCell(cell, column) ==
    /\ TableUntouched
    /\ row' = Row_set_cell(row, cell, column).row
    /\ last' = Op("set_cell", column, Len(row), Row_set_cell(row, cell, column).ok)
    /\ UNCHANGED <<tableVars, value, content, term>>

Next ==
    \/ \E r \in RowPool : AddRow(r)
    \/ AddEmptyRow
    \/ \E index \in RowIndices, r \in RowPool : InsertRow(index, r)
    \/ \E index \in RowIndices : RemoveRow(index)
    \/ \E element \in ElementPool, column \in CellIndices, r \in RowIndices :
          SetElement(element, column, r)
    \/ \E t \in TitlePool : SetTitles(t)
    \/ UnsetTitles
    \/ \E f \in FormatPool : SetFormat(f)
    \/ \E i \in RowIndices, j \in CellIndices, cell \in CellPool : IndexMutCell(i, j, cell)
    \/ \E i \in RowIndices, r \in RowPool : IndexMutRow(i, r)
    \/ \E i \in RowIndices, cell \in CellPool : AddCell(i, cell)
    \/ AsRef
    \/ \E r \in Ranges : Slice(r)
    \/ DropView
    \/ PrintTable
    \/ \E cell \in RowCellPool : RowAddCell(cell)
    \/ \E index \in RowCellIndices, cell \in RowCellPool : RowInsertCell(index, cell)
    \/ \E index \in RowCellIndices : RowRemoveCell(index)
    \/ \E cell \in RowCellPool, column \in RowCellIndices : RowSetCell(cell, column)

Spec == Init /\ [][Next]_vars


----------------------------------------------------------------------------
(* A cell content on its own: CellLines::default, then CellLines::from of a *)
(* string                                                                   *)

InitCell ==
    /\ format = FORMAT_DEFAULT
    /\ titles = <<>>
    /\ rows = <<>>
    /\ view = <<>>
    /\ out = NoOut
    /\ last = Op("default", 0, 0, TRUE)
    /\ panicked = FALSE
    /\ row = Row_empty
    /\ value \in StringPool
    /\ content = CellLines_default
    /\ term = NoTerm

\* content = CellLines::from(value)
CellFrom ==
    /\ content' = CellLines_from(value)
    /\ last' = Op("from", 0, 0, TRUE)
    /\ UNCHANGED <<tableVars, row, value, term>>

\* content = CellLines::default()
CellDefault ==
    /\ content' = CellLines_default
    /\ last' = Op("default", 0, 0, TRUE)
    /\ UNCHANGED <<tableVars, row, value, term>>

NextCell == CellFrom \/ CellDefault

SpecCell == InitCell /\ [][NextCell]_vars

----------------------------------------------------------------------------
(* A render into a sink that fails: the calls a render makes on out, in     *)
(* order, and the ? of every one of them                                     *)

\* out.write_all(bytes)
WriteAll(bytes) == Part("Write", 0, bytes)

\* the calls of one separator or cell print: one write_all of its bytes, none
\* when it has nothing to write
WritesOf(bytes) == IF bytes = <<>> THEN <<>> ELSE <<WriteAll(bytes)>>

RECURSIVE RowColumnsCalls(_, _, _, _, _)
\* the calls of the loop of Row::__print over the columns j..col_width.len()
RowColumnsCalls(r, fmt, col_width, i, j) ==
    IF j >= Len(col_width) THEN <<>>
    ELSE LET skip_r_fill == (j = Len(col_width) - 1)
                            /\ get_column_separator(fmt, "Right") = NoChar
         IN  <<WriteAll(Repeat(" ", fmt.pad_left))>>
             \o WritesOf(Cell_print(CellOrDefault(r, j), i, col_width[j + 1], skip_r_fill))
             \o <<WriteAll(Repeat(" ", fmt.pad_right))>>
             \o (IF j < Len(col_width) - 1
                 THEN WritesOf(print_column_separator(fmt, "Intern")) ELSE <<>>)
             \o RowColumnsCalls(r, fmt, col_width, i, j + 1)

\* the calls of the body of the loop of Row::__print for the line i
RowLineCalls(r, fmt, col_width, i) ==
    <<WriteAll(Repeat(" ", fmt.indent))>>
    \o WritesOf(print_column_separator(fmt, "Left"))
    \o RowColumnsCalls(r, fmt, col_width, i, 0)
    \o WritesOf(print_column_separator(fmt, "Right"))
    \o <<WriteAll(<<NL>>)>>

\* the calls of Row::__print
RowCalls(r, fmt, col_width) ==
    Flatten([i \in 1..Row_get_height(r) |-> RowLineCalls(r, fmt, col_width, i - 1)])

RECURSIVE RowsCalls(_, _, _)
\* the calls of the loop of TableSlice::__print over the rows
RowsCalls(rs, fmt, col_width) ==
    IF rs = <<>> THEN <<>>
    ELSE RowCalls(Head(rs), fmt, col_width)
         \o (IF Tail(rs) # <<>>
             THEN WritesOf(print_line_separator(fmt, col_width, "Intern")) ELSE <<>>)
         \o RowsCalls(Tail(rs), fmt, col_width)

\* the calls of TableSlice::__print
TableCalls(s) ==
    LET col_width == get_all_column_width(s)
    IN  WritesOf(print_line_separator(s.format, col_width, "Top"))
        \o (IF s.titles # <<>>
            THEN RowCalls(s.titles[1], s.format, col_width)
                 \o WritesOf(print_line_separator(s.format, col_width, "Title"))
            ELSE <<>>)
        \o RowsCalls(SliceRows(s), s.format, col_width)
        \o WritesOf(print_line_separator(s.format, col_width, "Bottom"))
        \o <<Flush>>

\* a sink whose call number fail_at to write or flush fails (none when 0):
\* what it took, and the calls made on it
Sink_new(fail_at) == [events |-> <<>>, calls |-> 0, fail_at |-> fail_at]

\* one call on the sink: write_all of no byte returns Ok without a write; the
\* failing call takes nothing
Call(c, sink) ==
    IF c.kind = "Write" /\ c.bytes = <<>> THEN [ok |-> TRUE, sink |-> sink]
    ELSE IF sink.calls + 1 = sink.fail_at
    THEN [ok |-> FALSE, sink |-> [sink EXCEPT !.calls = @ + 1]]
    ELSE [ok |-> TRUE,
          sink |-> [sink EXCEPT !.calls = @ + 1, !.events = Append(@, c)]]

RECURSIVE RunCalls_Continue(_, _)
\* RunCalls that drops the error of a call and goes on
RunCalls_Continue(calls, sink) ==
    IF calls = <<>>
    THEN [ok |-> sink.fail_at = 0 \/ sink.calls < sink.fail_at, sink |-> sink]
    ELSE RunCalls_Continue(Tail(calls), Call(Head(calls), sink).sink)

RECURSIVE RunCalls(_, _)
\* the calls in order, each followed by ?: the first Err is returned
RunCalls(calls, sink) ==
    IF calls = <<>> THEN [ok |-> TRUE, sink |-> sink]
    ELSE LET res == Call(Head(calls), sink)
         IN  IF res.ok THEN RunCalls(Tail(calls), res.sink) ELSE res

\* the widths a row printed on its own is given: those of its cells
RowColWidth(r) == [j \in 1..Len(r) |-> Row_get_cell_width(r, j - 1)]

\* the tables of the renders into a failing sink
TablePool == SeqsUpTo(RowPool, MaxRows)

InitSink ==
    /\ format \in FormatPool
    /\ titles \in {<<>>} \cup {<<t>> : t \in TitlePool}
    /\ rows \in TablePool
    /\ view = <<>>
    /\ out = NoOut
    /\ last = Op("init", 0, 0, TRUE)
    /\ panicked = FALSE
    /\ row \in RowPool
    /\ value = <<>>
    /\ content = CellLines_default
    /\ term = NoTerm

\* table.print(out) with a new sink that fails at its call fail_at; every
\* call of the render can be the failing one
SinkPrintTable(fail_at) ==
    /\ out = NoOut
    /\ LET res == RunCalls(TableCalls(Table_as_ref), Sink_new(fail_at))
       IN  /\ out' = [col_width |-> get_all_column_width(Table_as_ref),
                      events |-> res.sink.events]
           /\ last' = Op("print", fail_at, res.sink.calls, res.ok)
    /\ UNCHANGED <<format, titles, rows, view, panicked, rowVars>>

\* row.print(out, format, col_width) with a sink that fails at its call fail_at
SinkPrintRow(fail_at) ==
    /\ out = NoOut
    /\ LET res == RunCalls(RowCalls(row, format, RowColWidth(row)), Sink_new(fail_at))
       IN  /\ out' = [col_width |-> RowColWidth(row), events |-> res.sink.events]
           /\ last' = Op("print_row", fail_at, res.sink.calls, res.ok)
    /\ UNCHANGED <<format, titles, rows, view, panicked, rowVars>>

NextSink ==
    \/ \E fail_at \in 0..(Len(TableCalls(Table_as_ref)) + 1) : SinkPrintTable(fail_at)
    \/ \E fail_at \in 0..(Len(RowCalls(row, format, RowColWidth(row))) + 1) :
          SinkPrintRow(fail_at)

SpecSink == InitSink /\ [][NextSink]_vars

----------------------------------------------------------------------------
(* cell.rs: print_term, the print of a cell to a terminal with its style *)

\* the answers of a call on a terminal: Ok or a term::Error
TermAnswers == {"Ok", "NotSupported", "ColorOutOfRange", "Io", "Other"}

\* no unsupported attribute is ignored
Ignored_None == {}

\* the errors of attr and reset that print_term ignores
Ignored == {"NotSupported", "ColorOutOfRange"}

\* term_error_to_io_error: the io::Error itself, or one of kind Other
term_error_to_io_error(te) == IF te = "Io" THEN "Io" ELSE "Other"

\* the call out.attr(a) of the attribute k of the style
AttrCall(k, a) == Part("Attr", k, <<a>>)

\* the call out.reset()
ResetCall == Part("Reset", 0, <<>>)

RECURSIVE ApplyStyle(_, _, _, _)
\* the loop of Cell::print_term over the style from the attribute k on: the
\* calls made on the terminal, and the error that ended the loop if any
ApplyStyle(style, k, t, events) ==
    IF k > Len(style) THEN [res |-> "Ok", events |-> events]
    ELSE IF t.attr[k] = "Ok" \/ t.attr[k] \in Ignored
    THEN ApplyStyle(style, k + 1, t, Append(events, AttrCall(k, style[k])))
    ELSE [res |-> term_error_to_io_error(t.attr[k]),
          events |-> Append(events, AttrCall(k, style[k]))]

\* Cell::print_term: the result, and the calls made on the terminal (of the
\* content, the write that the terminal took)
Cell_print_term(cell, idx, col_width, skip_right_fill, t) ==
    LET styled == ApplyStyle(cell.style, 1, t, <<>>)
        bytes == Cell_print(cell, idx, col_width, skip_right_fill)
    IN  IF styled.res # "Ok" THEN styled
        ELSE IF t.write # "Ok" /\ bytes # <<>>
        THEN [res |-> t.write, events |-> styled.events]
        ELSE LET printed == Append(styled.events \o WritesOf(bytes), ResetCall)
             IN  IF t.reset = "Ok" \/ t.reset \in Ignored
                 THEN [res |-> "Ok", events |-> printed]
                 ELSE [res |-> term_error_to_io_error(t.reset), events |-> printed]

\* the attributes of the styles
AttrPool == {"Bold", "Italic"}

\* the cells printed to a terminal: "a" with every style of MaxStyle
\* attributes at most
TermCellPool ==
    {[Cell_new(CellLines_from(<<"a">>)) EXCEPT !.style = st] :
        st \in SeqsUpTo(AttrPool, MaxStyle)}

InitTerm ==
    /\ format = FORMAT_DEFAULT
    /\ titles = <<>>
    /\ rows = <<>>
    /\ view = <<>>
    /\ out = NoOut
    /\ last = Op("init", 0, 0, TRUE)
    /\ panicked = FALSE
    /\ \E cell \in TermCellPool :
          /\ row = <<cell>>
          /\ term \in {Term_new(a, w, r) :
                          a \in [1..Len(cell.style) -> TermAnswers],
                          w \in {"Ok", "Io"}, r \in TermAnswers}
    /\ value = <<>>
    /\ content = CellLines_default

\* cell.print_term(out, 0, 3, false) on a terminal not printed to yet
PrintTerm ==
    /\ out = NoOut
    /\ LET res == Cell_print_term(row[1], 0, 3, FALSE, term)
       IN  /\ out' = [col_width |-> <<3>>, events |-> res.events]
           /\ last' = Op("print_term", 0, Len(res.events), res.res = "Ok")
    /\ UNCHANGED <<format, titles, rows, view, panicked, rowVars>>

NextTerm == PrintTerm

SpecTerm == InitTerm /\ [][NextTerm]_vars

----------------------------------------------------------------------------
(* cell.rs: style_spec, the style of a cell set from a specifier string *)

\* the color specifiers of style_spec: the character, the color, and the
\* attributes Attr::ForegroundColor and Attr::BackgroundColor of the color
Colors ==
    <<<<"r", "RED", "Fg(RED)", "Bg(RED)">>,
      <<"R", "BRIGHT_RED", "Fg(BRIGHT_RED)", "Bg(BRIGHT_RED)">>,
      <<"b", "BLUE", "Fg(BLUE)", "Bg(BLUE)">>,
      <<"B", "BRIGHT_BLUE", "Fg(BRIGHT_BLUE)", "Bg(BRIGHT_BLUE)">>,
      <<"g", "GREEN", "Fg(GREEN)", "Bg(GREEN)">>,
      <<"G", "BRIGHT_GREEN", "Fg(BRIGHT_GREEN)", "Bg(BRIGHT_GREEN)">>,
      <<"y", "YELLOW", "Fg(YELLOW)", "Bg(YELLOW)">>,
      <<"Y", "BRIGHT_YELLOW", "Fg(BRIGHT_YELLOW)", "Bg(BRIGHT_YELLOW)">>,
      <<"c", "CYAN", "Fg(CYAN)", "Bg(CYAN)">>,
      <<"C", "BRIGHT_CYAN", "Fg(BRIGHT_CYAN)", "Bg(BRIGHT_CYAN)">>,
      <<"m", "MAGENTA", "Fg(MAGENTA)", "Bg(MAGENTA)">>,
      <<"M", "BRIGHT_MAGENTA", "Fg(BRIGHT_MAGENTA)", "Bg(BRIGHT_MAGENTA)">>,
      <<"w", "WHITE", "Fg(WHITE)", "Bg(WHITE)">>,
      <<"W", "BRIGHT_WHITE", "Fg(BRIGHT_WHITE)", "Bg(BRIGHT_WHITE)">>,
      <<"d", "BLACK", "Fg(BLACK)", "Bg(BLACK)">>,
      <<"D", "BRIGHT_BLACK", "Fg(BRIGHT_BLACK)", "Bg(BRIGHT_BLACK)">>>>

\* no color: the character is not a color specifier
NoColor == "NONE"

\* the match of style_spec on a color specifier: the color of the character
ColorMatch(c) ==
    IF \E k \in 1..Len(Colors) : Colors[k][1] = c
    THEN Colors[CHOOSE k \in 1..Len(Colors) : Colors[k][1] = c][2]
    ELSE NoColor

\* Attr::ForegroundColor(color)
ForegroundColor(color) == Colors[CHOOSE k \in 1..Len(Colors) : Colors[k][2] = color][3]

\* Attr::BackgroundColor(color)
BackgroundColor(color) == Colors[CHOOSE k \in 1..Len(Colors) : Colors[k][2] = color][4]

\* Cell::align
Cell_align(cell, align) == [cell EXCEPT !.align = align]

\* Cell::style
Cell_style(cell, attr) == [cell EXCEPT !.style = Append(@, attr)]

\* Cell_reset_style that keeps the style and the alignment
Cell_reset_style_Keep(cell) == cell

\* Cell::reset_style
Cell_reset_style(cell) == Cell_align([cell EXCEPT !.style = <<>>], "LEFT")

\* Directive that takes an unknown character for the default style
Directive_UnknownResets(cell, c) ==
    IF c = "b" THEN Cell_style(cell, "Bold")
    ELSE IF c = "i" THEN Cell_style(cell, "Italic(true)")
    ELSE IF c = "u" THEN Cell_style(cell, "Underline(true)")
    ELSE IF c = "c" THEN Cell_align(cell, "CENTER")
    ELSE IF c = "l" THEN Cell_align(cell, "LEFT")
    ELSE IF c = "r" THEN Cell_align(cell, "RIGHT")
    ELSE Cell_reset_style(cell)

\* the else branch of the loop of style_spec: the character is a specifier
Directive(cell, c) ==
    IF c = "b" THEN Cell_style(cell, "Bold")
    ELSE IF c = "i" THEN Cell_style(cell, "Italic(true)")
    ELSE IF c = "u" THEN Cell_style(cell, "Underline(true)")
    ELSE IF c = "c" THEN Cell_align(cell, "CENTER")
    ELSE IF c = "l" THEN Cell_align(cell, "LEFT")
    ELSE IF c = "r" THEN Cell_align(cell, "RIGHT")
    ELSE cell

RECURSIVE StyleLoop_ColorAsDirective(_, _, _, _)
\* StyleLoop that reads the character after F or B as a specifier again when
\* it is no color
StyleLoop_ColorAsDirective(cell, spec, foreground, background) ==
    IF spec = <<>> THEN cell
    ELSE LET c == Head(spec)
         IN  IF (foreground \/ background) /\ ColorMatch(c) # NoColor
             THEN StyleLoop_ColorAsDirective(
                      Cell_style(cell, IF foreground
                                       THEN ForegroundColor(ColorMatch(c))
                                       ELSE BackgroundColor(ColorMatch(c))),
                      Tail(spec), FALSE, FALSE)
             ELSE StyleLoop_ColorAsDirective(Directive(cell, c), Tail(spec),
                                             c = "F", c = "B")

RECURSIVE StyleLoop(_, _, _, _)
\* the loop of style_spec over the characters of the specifier
StyleLoop(cell, spec, foreground, background) ==
    IF spec = <<>> THEN cell
    ELSE LET c == Head(spec)
         IN  IF foreground \/ background
             THEN IF ColorMatch(c) = NoColor
                  THEN StyleLoop(cell, Tail(spec), FALSE, FALSE)
                  ELSE StyleLoop(
                           IF foreground
                           THEN Cell_style(cell, ForegroundColor(ColorMatch(c)))
                           ELSE IF background
                           THEN Cell_style(cell, BackgroundColor(ColorMatch(c)))
                           ELSE cell,
                           Tail(spec), FALSE, FALSE)
             ELSE IF c = "F" THEN StyleLoop(cell, Tail(spec), TRUE, background)
             ELSE IF c = "B" THEN StyleLoop(cell, Tail(spec), foreground, TRUE)
             ELSE StyleLoop(Directive(cell, c), Tail(spec), foreground, background)

\* Cell::style_spec
Cell_style_spec(cell, spec) == StyleLoop(Cell_reset_style(cell), spec, FALSE, FALSE)

\* the characters of the specifiers: the specifiers F, B, b, c and r, that
\* are the colors B, b, c and r after F or B, and the unknown z
SpecChars == {"F", "B", "b", "c", "r", "z"}

\* the specifier strings
SpecPool == SeqsUpTo(SpecChars, MaxSpecLen)

\* the cells style_spec is applied to: without style, and with a style and an
\* alignment
StyledCellPool == {CellA, CellWide, Cell_align(Cell_style(CellA, "Fg(RED)"), "CENTER")}

InitStyle ==
    /\ format = FORMAT_DEFAULT
    /\ titles = <<>>
    /\ rows = <<>>
    /\ view = <<>>
    /\ out = NoOut
    /\ last = Op("init", 0, 0, TRUE)
    /\ panicked = FALSE
    /\ row \in {<<cell>> : cell \in StyledCellPool}
    /\ value \in SpecPool
    /\ content = CellLines_default
    /\ term = NoTerm

\* cell = cell.style_spec(value); n counts the first and the second time
StyleSpec ==
    /\ last.n < 2
    /\ row' = <<Cell_style_spec(row[1], value)>>
    /\ last' = Op("style_spec", Len(row[1].style), last.n + 1, TRUE)
    /\ UNCHANGED <<tableVars, value, content, term>>

NextStyle == StyleSpec

SpecStyle == InitStyle /\ [][NextStyle]_vars

----------------------------------------------------------------------------
(* cell.rs: print, one line of a cell printed on its own *)

\* the contents of the cells printed: "test", the two lines "a" and "bc", a
\* character of width 2 before an "a", and no line
PrintContentPool ==
    {CellLines_from(<<"t", "e", "s", "t">>),
     CellLines_from(<<"a", NL, "b", "c">>),
     CellLines_from(<<"U+7531", "a">>),
     CellLines_default}

\* the cells printed: every content with every alignment
PrintCellPool ==
    {Cell_new_align(c, align) : c \in PrintContentPool, align \in Alignments}

\* the line indices of Cell::print, one beyond the lines of the cells included
LineIndices == 0..2

InitPrint ==
    /\ format = FORMAT_DEFAULT
    /\ titles = <<>>
    /\ rows = <<>>
    /\ view = <<>>
    /\ out = NoOut
    /\ last = Op("init", 0, 0, TRUE)
    /\ panicked = FALSE
    /\ row \in {<<cell>> : cell \in PrintCellPool}
    /\ value = <<>>
    /\ content = CellLines_default
    /\ term = NoTerm

\* cell.print(out, idx, col_width, skip_right_fill)
PrintCell(idx, col_width, skip_right_fill) ==
    /\ out' = [col_width |-> <<col_width>>,
               events |-> WritesOf(Cell_print(row[1], idx, col_width, skip_right_fill))]
    /\ last' = Op("print_cell", idx, col_width, TRUE)
    /\ UNCHANGED <<format, titles, rows, view, panicked, rowVars>>

NextPrint ==
    \E idx \in LineIndices, col_width \in 0..MaxColWidth, skip_right_fill \in BOOLEAN :
        PrintCell(idx, col_width, skip_right_fill)

SpecPrint == InitPrint /\ [][NextPrint]_vars

----------------------------------------------------------------------------
(* lib.rs: fmt::Display for Table and TableSlice. The StringWriter of      *)
(* utils.rs is not among the sources: it is a Write that collects what it  *)
(* takes in a string, and its write may fail as the write of any Write.    *)

\* StringWriter::new(): a writer whose call fail_at fails (none when 0)
StringWriter_new(fail_at) == Sink_new(fail_at)

\* StringWriter::as_string: what the writer took, in order
StringWriter_as_string(writer) ==
    Flatten([k \in 1..Len(writer.events) |-> writer.events[k].bytes])

\* the result of a text conversion: Ok and the text handed to the formatter,
\* or Err(fmt::Error) and nothing
FmtResult(ok, string) == [ok |-> ok, string |-> string]

\* Display::fmt that hands the formatter what the writer took whether the
\* print failed or not
TableSlice_fmt_Partial(s, writer) ==
    FmtResult(TRUE, StringWriter_as_string(RunCalls(TableCalls(s), writer).sink))

\* fmt::Display for TableSlice: print to a StringWriter, fmt::Error when
\* the print fails, else the string of the writer written to the formatter
TableSlice_fmt(s, writer) ==
    LET res == RunCalls(TableCalls(s), writer)
    IN  IF ~res.ok THEN FmtResult(FALSE, <<>>)
        ELSE FmtResult(TRUE, StringWriter_as_string(res.sink))

\* fmt::Display for Table: self.as_ref().fmt(fmt)
Table_fmt(writer) == TableSlice_fmt(Table_as_ref, writer)

\* the slices of the table a program can take with one call of slice
SlicePool ==
    {Slice_slice(Table_as_ref, r) : r \in {x \in Ranges : SliceIndex(Len(rows), x).ok}}

\* a text conversion of the slice of n rows from the row ptr on, with the
\* call at which its writer fails
TextOp(op, ptr, n, fail_at, ok) ==
    [Op(op, ptr, n, ok) EXCEPT !.arg = Range("FailAt", fail_at, 0)]

\* table.to_string(): out takes the text as one write
TableToString(fail_at) ==
    /\ out = NoOut
    /\ LET res == Table_fmt(StringWriter_new(fail_at))
       IN  /\ out' = [col_width |-> get_all_column_width(Table_as_ref),
                      events |-> WritesOf(res.string)]
           /\ last' = TextOp("to_string", 0, Len(rows), fail_at, res.ok)
    /\ UNCHANGED <<format, titles, rows, view, panicked, rowVars>>

\* table.slice(r).to_string()
SliceToString(s, fail_at) ==
    /\ out = NoOut
    /\ LET res == TableSlice_fmt(s, StringWriter_new(fail_at))
       IN  /\ out' = [col_width |-> get_all_column_width(s),
                      events |-> WritesOf(res.string)]
           /\ last' = TextOp("slice_to_string", s.ptr, s.len, fail_at, res.ok)
    /\ UNCHANGED <<format, titles, rows, view, panicked, rowVars>>

NextText ==
    \/ \E fail_at \in 0..(Len(TableCalls(Table_as_ref)) + 1) : TableToString(fail_at)
    \/ \E s \in SlicePool : \E fail_at \in 0..(Len(TableCalls(s)) + 1) :
          SliceToString(s, fail_at)

SpecText == InitSink /\ [][NextText]_vars

----------------------------------------------------------------------------
(* lib.rs: to_csv and from_csv. The records go through the csv crate: a    *)
(* record is written as its fields separated by commas and ended by a line *)
(* break, a field with a comma, a quote or a line break between quotes,    *)
(* its quotes doubled; the reader, has_headers(false), reads them back.    *)

Comma == ","

Quote == "\""

RECURSIVE JoinLines(_)
\* lines.join("\n")
JoinLines(lines) ==
    IF lines = <<>> THEN <<>>
    ELSE IF Tail(lines) = <<>> THEN Head(lines)
    ELSE Head(lines) \o <<NL>> \o JoinLines(Tail(lines))

\* Cell::get_content: the lines of the cell joined by "\n"
Cell_get_content(cell) == JoinLines(CellLines_get_lines(cell.content))

RECURSIVE CsvEscape(_)
\* the characters of a quoted field: a quote is doubled
CsvEscape(s) ==
    IF s = <<>> THEN <<>>
    ELSE (IF Head(s) = Quote THEN <<Quote, Quote>> ELSE <<Head(s)>>) \o CsvEscape(Tail(s))

\* one field as csv::Writer writes it
CsvField(s) ==
    IF \E k \in 1..Len(s) : s[k] \in {Comma, Quote, NL}
    THEN <<Quote>> \o CsvEscape(s) \o <<Quote>>
    ELSE s

RECURSIVE CsvFields(_)
\* the fields of a record separated by commas
CsvFields(fields) ==
    IF fields = <<>> THEN <<>>
    ELSE IF Tail(fields) = <<>> THEN CsvField(Head(fields))
    ELSE CsvField(Head(fields)) \o <<Comma>> \o CsvFields(Tail(fields))

\* csv::Writer::write: one record and its terminator
CsvWrite(fields) == CsvFields(fields) \o <<NL>>

RECURSIVE CsvRead(_, _, _, _, _)
\* csv::Reader::records: the records of a text; quoted says whether the
\* reader is inside a quoted field, field and record are those being read
CsvRead(s, quoted, field, record, acc) ==
    IF s = <<>> THEN acc
    ELSE IF quoted
    THEN IF Head(s) = Quote
         THEN IF Tail(s) # <<>> /\ Head(Tail(s)) = Quote
              THEN CsvRead(Tail(Tail(s)), TRUE, Append(field, Quote), record, acc)
              ELSE CsvRead(Tail(s), FALSE, field, record, acc)
         ELSE CsvRead(Tail(s), TRUE, Append(field, Head(s)), record, acc)
    ELSE IF Head(s) = Quote THEN CsvRead(Tail(s), TRUE, field, record, acc)
    ELSE IF Head(s) = Comma THEN CsvRead(Tail(s), FALSE, <<>>, Append(record, field), acc)
    ELSE IF Head(s) = NL
    THEN CsvRead(Tail(s), FALSE, <<>>, <<>>, Append(acc, Append(record, field)))
    ELSE CsvRead(Tail(s), FALSE, Append(field, Head(s)), record, acc)

\* the record of a row: row.iter().map(|c| c.get_content())
RowRecord(r) == [j \in 1..Len(r) |-> Cell_get_content(r[j])]

\* TableSlice::to_csv_writer: the record of the title row when there is one,
\* then the records of the rows
to_csv_writer(s) ==
    (IF s.titles # <<>> THEN CsvWrite(RowRecord(s.titles[1])) ELSE <<>>)
    \o Flatten([k \in 1..s.len |-> CsvWrite(RowRecord(SliceRows(s)[k]))])

\* the row of a record: Cell::new(&CellLines::from(cell)) of every field
RecordRow(record) == [j \in 1..Len(record) |-> Cell_new(CellLines_from(record[j]))]

\* Table::from_csv: the rows of Table::init(..), one for every record
from_csv(csv_s) ==
    LET records == CsvRead(csv_s, FALSE, <<>>, <<>>, <<>>)
    IN  [k \in 1..Len(records) |-> RecordRow(records[k])]

\* a cell "b,c": its field is written between quotes
CellComma == Cell_new(CellLines_from(<<"b", Comma, "c">>))

\* rows of two cells: plain ones, one with a comma, one with a right-aligned
\* styled cell of two lines
CsvRowPool == {<<CellA, CellA>>, <<CellComma, CellA>>, <<CellWide, CellA>>}

\* the title row of the exported tables: "t1", "t2"
CsvTitle == <<TitleCell("1"), TitleCell("2")>>

InitCsv ==
    /\ format \in FormatPool
    /\ titles \in {<<>>, <<CsvTitle>>}
    /\ rows \in SeqsUpTo(CsvRowPool, MaxRows)
    /\ view = <<>>
    /\ out = NoOut
    /\ last = Op("init", 0, 0, TRUE)
    /\ panicked = FALSE
    /\ row = Row_empty
    /\ value = <<>>
    /\ content = CellLines_default
    /\ term = NoTerm

\* table.to_csv(Vec::new()): out takes the text
ToCsv ==
    /\ last.op # "to_csv"
    /\ out' = [col_width |-> <<>>, events |-> WritesOf(to_csv_writer(Table_as_ref))]
    /\ last' = Op("to_csv", 0, Len(rows), TRUE)
    /\ UNCHANGED <<format, titles, rows, view, panicked, rowVars>>

\* Table::from_csv_string of the text exported: the table is now the one
\* Table::init made of the records
FromCsv ==
    /\ last.op = "to_csv"
    /\ rows' = from_csv(Bytes(out))
    /\ titles' = <<>>
    /\ format' = FORMAT_DEFAULT
    /\ out' = NoOut
    /\ last' = Op("from_csv", 0, Len(rows'), TRUE)
    /\ UNCHANGED <<view, panicked, rowVars>>

NextCsv == ToCsv \/ FromCsv

SpecCsv == InitCsv /\ [][NextCsv]_vars

----------------------------------------------------------------------------
(* lib.rs: the renders of the tests of the formats *)

\* Cell::new of a string without a line break
CellOf(s) == Cell_new(CellLines_from(s))

\* the rows of tests::table: [a, bc, def] and [def, bc, a]
RowAbc == <<CellOf(<<"a">>), CellOf(<<"b", "c">>), CellOf(<<"d", "e", "f">>)>>

RowDef == <<CellOf(<<"d", "e", "f">>), CellOf(<<"b", "c">>), CellOf(<<"a">>)>>

\* a row of one cell of a wide character and a letter
RowCjk == <<CellOf(<<"U+7531", "a">>)>>

\* the rows of the tables rendered: those of tests::table, a row without a
\* cell, a row of two cells whose first has two lines, and a row of one cell
\* with a wide character
RenderRowPool == {RowAbc, RowDef, Row_empty, <<CellWide, CellA>>, RowCjk}

\* the formats of the tests: the presets, the box drawing format,
\* FORMAT_DEFAULT with padding(2, 2) and with indent(8)
RenderFormatPool ==
    {FORMAT_DEFAULT, FORMAT_NO_LINESEP, FORMAT_NO_COLSEP, FORMAT_CLEAN, FORMAT_BOX,
     TableFormat_padding(FORMAT_DEFAULT, 2, 2), TableFormat_indent(FORMAT_DEFAULT, 8)}

InitRender ==
    /\ format \in RenderFormatPool
    /\ titles \in {<<>>} \cup {<<t>> : t \in TitlePool}
    /\ rows \in SeqsUpTo(RenderRowPool, MaxRows)
    /\ view = <<>>
    /\ out = NoOut
    /\ last = Op("init", 0, 0, TRUE)
    /\ panicked = FALSE
    /\ row = Row_empty
    /\ value = <<>>
    /\ content = CellLines_default
    /\ term = NoTerm

\* table.print(out)
RenderTable ==
    /\ out = NoOut
    /\ out' = TableSlice_print(Table_as_ref)
    /\ last' = Op("print", 0, Len(rows), TRUE)
    /\ UNCHANGED <<format, titles, rows, view, panicked, rowVars>>

\* the rows printed on their own: those of the tables, and a row of three
\* cells, of three lines, of no line and of two right-aligned lines
PrintedRowPool == RenderRowPool \cup {<<CellTall, Cell_default, CellWide>>}

\* the widths of a column handed to Row::print
WidthPool == {0, 2, 4}

\* the column widths handed to Row::print: fewer, as many and more than the
\* row has cells
ColWidthPool == SeqsUpTo(WidthPool, MaxRowCells)

\* r.print(out, format, col_width) of a row on its own
RenderRow(r, col_width) ==
    /\ out = NoOut
    /\ rows = <<>>
    /\ titles = <<>>
    /\ row' = r
    /\ out' = [col_width |-> col_width,
               events |-> <<Part("Row", 0, Row_print(r, format, col_width))>>]
    /\ last' = Op("print_row", 0, Len(r), TRUE)
    /\ UNCHANGED <<format, titles, rows, view, panicked, value, content, term>>

NextRender ==
    \/ RenderTable
    \/ \E r \in PrintedRowPool, col_width \in ColWidthPool : RenderRow(r, col_width)

SpecRender == InitRender /\ [][NextRender]_vars

----------------------------------------------------------------------------
(* lib.rs: ColumnIter and ColumnIterMut, iterated by a for loop: next is   *)
(* called until it returns None. last holds the column of the iterator and *)
(* the number of rows its row iterator has yielded, row the cells yielded.  *)

\* Row::get_cell, Row::get_mut_cell: the cell at the 0-based index, if any
Row_get_cell(r, idx) == IF idx < Len(r) THEN <<r[idx + 1]>> ELSE <<>>

\* Iterator::next for ColumnIter(rows.iter(), column) whose row iterator has
\* yielded n rows: self.0.next().and_then(|row| row.get_cell(self.1))
ColumnIter_next(rs, column, n) ==
    IF n < Len(rs)
    THEN [item |-> Row_get_cell(rs[n + 1], column), n |-> n + 1]
    ELSE [item |-> <<>>, n |-> n]

\* the tables iterated: rows of no cell, of one cell and of two cells
IterTablePool == SeqsUpTo(RowPool \cup {Row_empty}, MaxRows)

InitIter ==
    /\ format = FORMAT_DEFAULT
    /\ titles = <<>>
    /\ rows \in IterTablePool
    /\ view = <<>>
    /\ out = NoOut
    /\ last = Op("init", 0, 0, TRUE)
    /\ panicked = FALSE
    /\ row = Row_empty
    /\ value = <<>>
    /\ content = CellLines_default
    /\ term = NoTerm

\* for cell in table.column_iter(column): the iterator is made
ColumnIterNew(column) ==
    /\ last.op = "init"
    /\ last' = Op("column_iter", column, 0, TRUE)
    /\ row' = <<>>
    /\ UNCHANGED <<tableVars, value, content, term>>

\* one turn of the loop: next is called, the loop ends when it returns None
ColumnIterNext ==
    /\ last.op \in {"column_iter", "next"}
    /\ last.ok
    /\ LET res == ColumnIter_next(rows, last.idx, last.n)
       IN  /\ last' = Op("next", last.idx, res.n, res.item # <<>>)
           /\ row' = row \o res.item
    /\ UNCHANGED <<tableVars, value, content, term>>

NextIter ==
    \/ \E column \in CellIndices : ColumnIterNew(column)
    \/ ColumnIterNext

SpecIter == InitIter /\ [][NextIter]_vars

----------------------------------------------------------------------------
(* lib.rs: set_element on tables whose cells are aligned and styled *)

\* the elements handed to set_element: "a", and the two lines "bc" and "def"
\* of the right-aligned bold cell of the rows
SetElementPool == {CellLines_from(<<"a">>), CellWide.content}

InitSet ==
    /\ format = FORMAT_DEFAULT
    /\ titles \in {<<>>} \cup {<<t>> : t \in TitlePool}
    /\ rows \in TablePool
    /\ view = <<>>
    /\ out = NoOut
    /\ last = Op("init", 0, 0, TRUE)
    /\ panicked = FALSE
    /\ row = Row_empty
    /\ value = <<>>
    /\ content = CellLines_default
    /\ term = NoTerm

NextSet ==
    \E element \in SetElementPool, column \in CellIndices, r \in RowIndices :
        SetElement(element, column, r)

SpecSet == InitSet /\ [][NextSet]_vars

----------------------------------------------------------------------------
(* lib.rs: AsRef<TableSlice> for Table and the operations that take &self. *)
(* as_ref calls rows.shrink_to_fit() through a pointer cast and transmutes *)
(* &Table to &TableSlice: the slice reads the pointer and the capacity of  *)
(* the Vec as its rows. Here value holds the Vec of the rows (its capacity *)
(* and the address of its buffer), and view the slices alive, each with    *)
(* the address its rows point to and the rows it viewed when it was taken. *)

\* Vec::new(): no buffer
Vec_new == [cap |-> 0, addr |-> 0]

\* Vec::push on a Vec of len elements: a full buffer is reallocated with
\* twice the capacity, 4 at least, and may move
Vec_push(len, buf) ==
    IF len < buf.cap THEN {buf}
    ELSE {[cap |-> Max(4, 2 * buf.cap), addr |-> a] : a \in {buf.addr, buf.addr + 1}}

\* Vec_shrink_to_fit that moves the buffer at every call
Vec_shrink_to_fit_Moves(len, buf) == {[cap |-> len, addr |-> buf.addr + 1]}

\* Vec::shrink_to_fit on a Vec of len elements: nothing when the capacity is
\* the length, else the buffer is reallocated to the length and may move
Vec_shrink_to_fit(len, buf) ==
    IF buf.cap = len THEN {buf}
    ELSE {[cap |-> len, addr |-> a] : a \in {buf.addr, buf.addr + 1}}

\* the TableSlice that as_ref returns over the Vec buf: &Table read as
\* &TableSlice, the capacity of the Vec read as the number of rows
TableSlice_transmute(buf) ==
    [format |-> format, titles |-> titles, ptr |-> 0, len |-> buf.cap]

\* a slice alive: the address its rows point to, the rows it viewed when taken
LiveSlice(s, addr) == [slice |-> s, addr |-> addr, seen |-> SliceRows(s)]

\* the operations of Table that go through as_ref
AsRefOps == {"print", "print_term", "to_string", "as_ref", "get_column_num"}

\* the operations of Table that read self.rows
RowsOps == {"len", "get_row", "column_iter", "row_iter"}

\* the operations that render the table
RenderOps == {"print", "to_string"}

InitRead ==
    /\ format = FORMAT_DEFAULT
    /\ titles \in {<<>>, <<RowAbc>>}
    /\ rows = <<>>
    /\ view = <<>>
    /\ out = NoOut
    /\ last = Op("new", 0, 0, TRUE)
    /\ panicked = FALSE
    /\ row = Row_empty
    /\ value = Vec_new
    /\ content = CellLines_default
    /\ term = NoTerm

\* table.add_row(r): a mutation, no slice is alive
ReadAddRow(r) ==
    /\ view = <<>>
    /\ Len(rows) < MaxRows
    /\ rows' = Table_add_row(rows, r)
    /\ value' \in Vec_push(Len(rows), value)
    /\ out' = NoOut
    /\ last' = Op("add_row", Len(rows), Len(rows), TRUE)
    /\ UNCHANGED <<format, titles, view, panicked, row, content, term>>

\* an operation of the table through as_ref; out keeps the last render
ReadThroughAsRef(op) ==
    /\ value' \in Vec_shrink_to_fit(Len(rows), value)
    /\ out' = IF op \in RenderOps THEN TableSlice_print(TableSlice_transmute(value'))
              ELSE out
    /\ last' = Op(op, 0, value'.cap, TRUE)
    /\ UNCHANGED <<format, titles, rows, view, panicked, row, content, term>>

\* an operation of the table that reads self.rows
ReadRows(op) ==
    /\ last' = Op(op, 0, Len(rows), TRUE)
    /\ last' # last
    /\ UNCHANGED <<format, titles, rows, view, out, panicked, rowVars>>

\* table.as_ref().slice(r) with a valid range, one slice alive at a time
TakeSlice(r) ==
    /\ view = <<>>
    /\ value' \in Vec_shrink_to_fit(Len(rows), value)
    /\ SliceIndex(value'.cap, r).ok
    /\ view' = Append(view, LiveSlice(Slice_slice(TableSlice_transmute(value'), r),
                                      value'.addr))
    /\ last' = SliceOp(0, value'.cap, r, TRUE)
    /\ UNCHANGED <<format, titles, rows, out, panicked, row, content, term>>

\* the slices go out of scope
ReadDropViews ==
    /\ view # <<>>
    /\ view' = <<>>
    /\ last' = Op("drop", 0, Len(rows), TRUE)
    /\ UNCHANGED <<format, titles, rows, out, panicked, rowVars>>

NextRead ==
    \/ \E r \in {RowAbc, RowDef} : ReadAddRow(r)
    \/ \E op \in AsRefOps : ReadThroughAsRef(op)
    \/ \E op \in RowsOps : ReadRows(op)
    \/ \E r \in Ranges : TakeSlice(r)
    \/ ReadDropViews

SpecRead == InitRead /\ [][NextRead]_vars

----------------------------------------------------------------------------
(* The claims *)

\* the slice an operation on the table or on the live slice works on
Current == IF view = <<>> THEN Table_as_ref ELSE view[1]

\* every slice of the table: len rows from the row ptr on, within the table
AllSlices ==
    {s \in [format : {format}, titles : {titles},
            ptr : 0..Len(rows), len : 0..Len(rows)] : s.ptr + s.len <= Len(rows)}

\* the rows of a slice and its title row, as a set
RowsAndTitle(s) ==
    {rows[k] : k \in (s.ptr + 1)..(s.ptr + s.len)}
    \cup (IF s.titles # <<>> THEN {s.titles[1]} ELSE {})

\* the greatest width of a cell at the 0-based column i among a set of rows;
\* a row without such a cell adds nothing
WidestAt(R, i) == SetMax({Cell_get_width(r[i + 1]) : r \in {x \in R : Len(x) > i}})

\* C1 as claimed: the column count of a table or slice is the greatest number
\* of cells over its rows and its title row when it has one
C1_ColumnNumCountsTitle ==
    \A s \in AllSlices : get_column_num(s) = SetMax({Len(r) : r \in RowsAndTitle(s)})

\* C2: the width of every column i of the table and of the slice in use is
\* the greatest width of a cell at i over the title row and the rows, a row
\* without a cell at i adding 0; the widths of a render are these, one per
\* column of the column count (get_column_num, which counts the cells of the
\* rows)
C2_ColumnWidthIsMax ==
    \A s \in {Table_as_ref, Current} :
        /\ \A i \in CellIndices :
              get_column_width(s, i) = WidestAt(RowsAndTitle(s), i)
        /\ Len(get_all_column_width(s)) = get_column_num(s)
        /\ \A i \in 1..Len(get_all_column_width(s)) :
              get_all_column_width(s)[i] = WidestAt(RowsAndTitle(s), i - 1)

\* a render of a table with a title and two rows, the first of one cell: the
\* title decides the width of the column 0, the second row that of the column 1
C2_Witness ==
    /\ last.op = "print"
    /\ view = <<>>
    /\ titles # <<>>
    /\ Len(rows) = 2
    /\ rows[1] = <<CellA>>
    /\ rows[2] = <<CellA, CellWide>>
    /\ get_all_column_width(Table_as_ref) = <<2, 3>>
    /\ out.col_width = <<2, 3>>

\* the parts of a render of a slice, in order: the kind and the row of each
ExpectedParts(s) ==
    <<<<"Top", 0>>>>
    \o (IF s.titles # <<>> THEN <<<<"TitleRow", 0>>, <<"Title", 0>>>> ELSE <<>>)
    \o [k \in 1..(IF s.len = 0 THEN 0 ELSE 2 * s.len - 1) |->
          IF k % 2 = 1 THEN <<"Row", (k - 1) \div 2>> ELSE <<"Intern", (k \div 2) - 1>>]
    \o <<<<"Bottom", 0>>, <<"Flush", 0>>>>

\* C3: a render emits the Top separator, the title row and the Title
\* separator when there is a title, every row in order with an Intern
\* separator after each but the last, the Bottom separator, then one flush
C3_RenderOrder ==
    last.op = "print" =>
        /\ [k \in 1..Len(out.events) |-> <<out.events[k].kind, out.events[k].index>>]
              = ExpectedParts(Current)
        /\ \A k \in 1..Len(out.events) :
              out.events[k].kind = "Row" =>
                  out.events[k].bytes =
                      Row_print(SliceRows(Current)[out.events[k].index + 1],
                                Current.format, out.col_width)

\* a render of a table with a title and two rows
C3_Witness ==
    /\ last.op = "print"
    /\ titles # <<>>
    /\ Current.len = 2
    /\ Len(out.events) = 8

\* a table built anew from a title, rows and a format: Table::init(rows), then
\* set_titles and set_format; the slice is its as_ref()
FreshSlice(t, rs, f) == [format |-> f, titles |-> t, ptr |-> 0, len |-> Len(rs)]

\* C4: the render of a table that mutations have brought to its content uses
\* the column widths of that content, the greatest width of a cell of each
\* column as it is now, and writes what the render of a table built anew
\* with the same title, rows and format writes
C4_RenderUsesCurrentContent ==
    (last.op = "print" /\ view = <<>>) =>
        /\ Len(out.col_width) = SetMax({Len(rows[k]) : k \in 1..Len(rows)})
        /\ \A i \in 1..Len(out.col_width) :
              out.col_width[i]
                  = WidestAt({rows[k] : k \in 1..Len(rows)}
                             \cup {titles[k] : k \in 1..Len(titles)}, i - 1)
        /\ Bytes(out) = Bytes(TableSlice_print(FreshSlice(titles, rows, format)))

\* the render of a table whose second row got wide cells in place of narrow
\* ones, after set_titles and set_format
C4_Witness ==
    /\ last.op = "print"
    /\ view = <<>>
    /\ titles # <<>>
    /\ format = FORMAT_CLEAN
    /\ rows = <<<<CellA>>, <<CellWide, CellWide>>>>
    /\ out.col_width = <<3, 3>>

\* the 0-based first row of a range in a slice of len rows
RangeStart(r) == IF r.kind \in {"Range", "RangeFrom"} THEN r.start ELSE 0

\* the 0-based row after the last of a range in a slice of len rows
RangeEnd(r, len) == IF r.kind \in {"Range", "RangeTo"} THEN r.end ELSE len

\* a range within a slice of len rows
RangeValid(r, len) == RangeStart(r) <= RangeEnd(r, len) /\ RangeEnd(r, len) <= len

\* the ranges a..b within a slice of len rows
ValidRanges(len) == UNION {{Range("Range", a, b) : a \in 0..b} : b \in 0..len}

\* table.slice(r)
TableSlice1(r) == Slice_slice(Table_as_ref, r)

\* C5: a slice of a slice views the rows of the range of the range: slice(r)
\* of a slice that begins at the row p views the rows from p + start(r) up to
\* p + end(r), so slice(a..b) then slice(c..d) of the table views the rows
\* a + c up to a + d, with the title and the format of the table; a slice reached by slices of slices renders as the
\* slice a..b of the table over the same rows does
C5_SliceComposes ==
    /\ (last.op = "slice" /\ last.ok) =>
          /\ view # <<>>
          /\ view[1].ptr = last.idx + RangeStart(last.arg)
          /\ view[1].len = RangeEnd(last.arg, last.n) - RangeStart(last.arg)
          /\ view[1].ptr + view[1].len <= last.idx + last.n
          /\ view[1].titles = titles
          /\ view[1].format = format
    /\ \A r1 \in ValidRanges(Len(rows)) :
          LET n1 == RangeEnd(r1, Len(rows)) - RangeStart(r1)
          IN  \A r2 \in ValidRanges(n1) :
                  LET s2 == Slice_slice(TableSlice1(r1), r2)
                  IN  /\ SliceRows(s2)
                            = [i \in 1..(RangeEnd(r2, n1) - RangeStart(r2)) |->
                                  rows[RangeStart(r1) + RangeStart(r2) + i]]
                      /\ s2.titles = titles
                      /\ s2.format = format
    /\ (last.op = "print" /\ view # <<>>) =>
          /\ out = TableSlice_print(
                       TableSlice1(Range("Range", view[1].ptr,
                                         view[1].ptr + view[1].len)))
          /\ out = TableSlice_print(
                       Slice_slice(
                           Slice_slice(TableSlice1(Range("RangeFull", 0, 0)),
                                       Range("RangeFrom", view[1].ptr, 0)),
                           Range("RangeTo", 0, view[1].len)))

\* the slice 0..1 taken from a slice that begins at the row 1: the row 1 of
\* the table
C5_Witness ==
    /\ last.op = "slice"
    /\ last.ok
    /\ last.idx = 1
    /\ last.arg = Range("Range", 0, 1)
    /\ view # <<>>
    /\ view[1].ptr = 1
    /\ view[1].len = 1
    /\ titles # <<>>

\* C6: slice with a range out of bounds of the rows of the slice (its end
\* beyond their number, or its start beyond its end) panics in slice itself:
\* no slice is returned, nothing is left to fail at a later render
C6_InvalidRangePanics ==
    (last.op = "slice" /\ ~RangeValid(last.arg, last.n)) =>
        /\ ~last.ok
        /\ panicked
        /\ view = <<>>
        /\ out = NoOut

\* slice has panicked on a range that ends beyond the rows of a slice that
\* has rows
C6_Witness ==
    /\ panicked
    /\ last.op = "slice"
    /\ last.n > 0
    /\ last.arg.kind = "Range"
    /\ last.arg.start <= last.arg.end
    /\ last.arg.end > last.n

\* C7: the height of a cell content is the number of its lines and is at
\* least 1, for the default content and the content of the empty string too,
\* whose width is 0
C7_HeightAtLeastOne ==
    /\ CellLines_get_height(content) = Len(CellLines_get_lines(content))
    /\ CellLines_get_height(content) >= 1
    /\ (last.op = "default" \/ value = <<>>) =>
          /\ CellLines_get_height(content) = 1
          /\ CellLines_get_width(content) = 0

\* C8: the width of a cell content is the greatest display width of its
\* lines, a double-width character counting 2, and 0 when it has no line
C8_WidthIsDisplayWidth ==
    /\ CellLines_get_width(content)
          = SetMax({DisplayWidth(CellLines_get_lines(content)[k]) :
                       k \in 1..Len(CellLines_get_lines(content))})
    /\ (last.op = "from" /\ value = Privet) => CellLines_get_width(content) = 6
    /\ (last.op = "from" /\ value = Cjk7) => CellLines_get_width(content) = 14

\* the rows of the table, its title, and the row of the row program
AllRows ==
    {rows[k] : k \in 1..Len(rows)} \cup {titles[k] : k \in 1..Len(titles)} \cup {row}

\* C9: the height of a row is the greatest height of its cells and at least
\* 1: 1 for a row of no cell or of empty cells only
C9_RowHeightIsMax ==
    \A r \in AllRows :
        /\ Row_get_height(r)
              = Max(1, SetMax({Cell_get_height(r[k]) : k \in 1..Len(r)}))
        /\ (\A k \in 1..Len(r) : r[k] = Cell_default) => Row_get_height(r) = 1

\* a row of a cell of 3 lines and two cells of 1 line, of height 3
C9_Witness ==
    /\ last.op \in {"add_cell", "insert_cell", "set_cell", "remove_cell"}
    /\ Len(row) = 3
    /\ \E k \in 1..3 :
          /\ Cell_get_height(row[k]) = 3
          /\ \A m \in (1..3) \ {k} : Cell_get_height(row[m]) = 1
    /\ Row_get_height(row) = 3

\* old[0..k] ++ [new] ++ old[k..], k the least of index and the length of old
InsertedAt(old, index, new) ==
    SubSeq(old, 1, Min(index, Len(old))) \o <<new>>
        \o SubSeq(old, Min(index, Len(old)) + 1, Len(old))

\* C10: insert_row and insert_cell leave old[0..k] ++ [new] ++ old[k..] with
\* k the least of the index and the length of old: one element more, never a
\* failure, an index at or beyond the length being an append
C10_InsertAtOrAppend ==
    [][
        /\ \A index \in RowIndices, r \in RowPool :
              InsertRow(index, r) =>
                  /\ rows' = InsertedAt(rows, index, r)
                  /\ Len(rows') = Len(rows) + 1
                  /\ ~panicked'
        /\ \A column \in RowCellIndices, cell \in RowCellPool :
              RowInsertCell(column, cell) =>
                  /\ row' = InsertedAt(row, column, cell)
                  /\ Len(row') = Len(row) + 1
                  /\ ~panicked'
    ]_vars

\* a row inserted before the last of two rows that differ
C10_Witness ==
    /\ last.op = "insert_row"
    /\ last.idx = 0
    /\ last.n = 1
    /\ Len(rows) = 2
    /\ rows[1] # rows[2]

\* old without its element at the 0-based index, in range
RemovedAt(old, index) == SubSeq(old, 1, index) \o SubSeq(old, index + 2, Len(old))

\* C11: remove_row and remove_cell with an index at or beyond the length
\* leave the table or the row as it was and do not fail; with an index in
\* range they take out that element alone, the others in their order, the
\* length one less
C11_RemoveOrNoOp ==
    [][
        /\ last'.op = "remove_row" =>
              \A index \in RowIndices :
                  RemoveRow(index) =>
                      /\ ~panicked'
                      /\ titles' = titles /\ format' = format
                      /\ IF index >= Len(rows)
                         THEN rows' = rows
                         ELSE /\ rows' = RemovedAt(rows, index)
                              /\ Len(rows') = Len(rows) - 1
        /\ last'.op = "remove_cell" =>
              \A column \in RowCellIndices :
                  RowRemoveCell(column) =>
                      /\ ~panicked'
                      /\ IF column >= Len(row)
                         THEN row' = row
                         ELSE /\ row' = RemovedAt(row, column)
                              /\ Len(row') = Len(row) - 1
    ]_vars

\* the first of two rows that differ taken out: the second is left
C11_Witness ==
    /\ last.op = "remove_row"
    /\ last.idx = 0
    /\ last.n = 2
    /\ rows = <<<<CellWide, CellA>>>>

\* r with the cell at the 0-based column replaced
CellReplaced(r, column, cell) ==
    [k \in 1..Len(r) |-> IF k = column + 1 THEN cell ELSE r[k]]

\* C12: set_cell with a column at or beyond the length of the row fails and
\* leaves the row as it was; set_element fails when the row index is at or
\* beyond the number of rows or the column at or beyond the length of that
\* row, and leaves the whole table as it was; with indices in range both
\* succeed and change the addressed cell alone
C12_SetFailsOrReplaces ==
    [][
        /\ last'.op = "set_cell" =>
              \A cell \in RowCellPool, column \in RowCellIndices :
                  RowSetCell(cell, column) =>
                      /\ ~panicked'
                      /\ IF column >= Len(row)
                         THEN ~last'.ok /\ row' = row
                         ELSE last'.ok /\ row' = CellReplaced(row, column, cell)
        /\ last'.op = "set_element" =>
              \A element \in ElementPool, column \in CellIndices, r \in RowIndices :
                  SetElement(element, column, r) =>
                      /\ ~panicked'
                      /\ titles' = titles /\ format' = format
                      /\ IF r >= Len(rows) \/ column >= Len(rows[r + 1])
                         THEN ~last'.ok /\ rows' = rows
                         ELSE /\ last'.ok
                              /\ rows' = [k \in 1..Len(rows) |->
                                    IF k = r + 1
                                    THEN CellReplaced(rows[k], column, Cell_new(element))
                                    ELSE rows[k]]
    ]_vars

\* set_element has failed on a row of the table: the cell was not found
C12_Witness ==
    /\ last.op = "set_element"
    /\ ~last.ok
    /\ last.idx < last.n
    /\ Len(rows) = last.n
    /\ ~panicked

\* the calls of a render that reach the sink: write_all of no byte does not
NonEmpty(calls) == SelectSeq(calls, LAMBDA c : c.kind = "Flush" \/ c.bytes # <<>>)

\* the calls of the render that the last operation of SpecSink made
LastCalls ==
    IF last.op = "print" THEN NonEmpty(TableCalls(Table_as_ref))
    ELSE NonEmpty(RowCalls(row, format, RowColWidth(row)))

\* C13: once a write to the sink fails during a render of a table or of a
\* row, the render returns the error at once: the sink has taken the writes
\* before the failing one and nothing after it, no call follows the failing
\* one, and the flush is not done; a render whose sink does not fail writes
\* every byte and, for a table, flushes
C13_SinkFailureAborts ==
    last.op \in {"print", "print_row"} =>
        IF last.idx \in 1..Len(LastCalls)
        THEN /\ ~last.ok
             /\ last.n = last.idx
             /\ out.events = SubSeq(LastCalls, 1, last.idx - 1)
             /\ \A k \in 1..Len(out.events) : out.events[k].kind # "Flush"
        ELSE /\ last.ok
             /\ out.events = LastCalls
             /\ last.op = "print" =>
                   /\ Bytes(out) = Bytes(TableSlice_print(Table_as_ref))
                   /\ out.events[Len(out.events)] = Flush

\* a render of a table with a title and two rows whose sink failed inside the
\* first row: later calls remained to be made
C13_Witness ==
    /\ last.op = "print"
    /\ ~last.ok
    /\ titles # <<>>
    /\ Len(rows) = 2
    /\ format = FORMAT_DEFAULT
    /\ last.idx > Len(NonEmpty(RowCalls(titles[1], format, out.col_width))) + 2
    /\ last.idx + 10 < Len(LastCalls)
    /\ Len(out.events) = last.idx - 1

\* the attributes of the cell printed to the terminal that were passed to
\* the terminal, by their place in the style
Passed == {k \in 1..Len(row[1].style) : \E e \in 1..Len(out.events) :
              out.events[e] = AttrCall(k, row[1].style[k])}

\* those of them that the terminal applied
Applied == {k \in Passed : term.attr[k] = "Ok"}

\* C14 as claimed: print_term passes every attribute of the style to the
\* terminal, in the order of the list, before the content, and resets the
\* attributes after the content: whenever it returns after the terminal took
\* an attribute, a reset has followed the last attribute taken
C14_StyleThenReset ==
    last.op = "print_term" =>
        /\ Passed = 1..Len(row[1].style)
        /\ \A e \in 1..Len(out.events), f \in 1..Len(out.events) :
              (out.events[e].kind = "Attr" /\ out.events[f].kind = "Write") => e < f
        /\ Applied # {} => out.events[Len(out.events)] = ResetCall

\* the place in the style of the first attribute whose error is returned, 0
\* when there is none
FirstError ==
    LET bad == {k \in 1..Len(row[1].style) :
                   term.attr[k] \notin {"Ok", "NotSupported", "ColorOutOfRange"}}
    IN  IF bad = {} THEN 0 ELSE CHOOSE k \in bad : \A m \in bad : k <= m

\* C15: an answer of the terminal that the attribute is not supported
\* (NotSupported, ColorOutOfRange) is ignored: the attributes after it and the
\* content are still printed; any other error of attr or of reset is returned
\* to the caller as an error
C15_UnsupportedIgnored ==
    last.op = "print_term" =>
        /\ \A k \in 1..Len(row[1].style) :
              (term.attr[k] \in {"NotSupported", "ColorOutOfRange"}
               /\ (FirstError = 0 \/ k < FirstError)) =>
                  /\ \A m \in (k + 1)..Len(row[1].style) :
                        (term.attr[m] = "Ok" /\ (FirstError = 0 \/ m < FirstError))
                            => m \in Applied
                  /\ (FirstError = 0 /\ term.write = "Ok") =>
                        \E e \in 1..Len(out.events) : out.events[e].kind = "Write"
        /\ FirstError # 0 => ~last.ok
        /\ (FirstError = 0 /\ term.write = "Ok") =>
              (last.ok <=> term.reset \in {"Ok", "NotSupported", "ColorOutOfRange"})

\* a cell of two attributes printed to a terminal that does not support the
\* first: the second and the content are printed, the result is Ok
C15_Witness ==
    /\ last.op = "print_term"
    /\ last.ok
    /\ Len(row[1].style) = 2
    /\ term.attr[1] = "NotSupported"
    /\ term.attr[2] = "Ok"
    /\ Passed = {1, 2}
    /\ Applied = {2}
    /\ Len(out.events) = 4

\* the characters that style_spec knows as specifiers
DirectiveChars == {"F", "B", "b", "i", "u", "c", "l", "r"}

\* the 16 color specifiers
ColorChars ==
    {"r", "R", "b", "B", "g", "G", "y", "Y", "c", "C", "m", "M", "w", "W", "d", "D"}

\* C16: style_spec is not cumulative: the style and the alignment after
\* style_spec(s) are those style_spec(s) gives any other cell, whatever the
\* style and the alignment before; style_spec(s) applied again changes
\* nothing; a specifier without a known character leaves no style and the
\* alignment LEFT; the content is kept
C16_StyleSpecNotCumulative ==
    [][StyleSpec =>
          /\ row'[1].content = row[1].content
          /\ \A cell \in StyledCellPool :
                /\ row'[1].style = Cell_style_spec(cell, value).style
                /\ row'[1].align = Cell_style_spec(cell, value).align
          /\ Cell_style_spec(row'[1], value) = row'[1]
          /\ (\A k \in 1..Len(value) : value[k] \notin DirectiveChars) =>
                (row'[1].style = <<>> /\ row'[1].align = "LEFT")
      ]_vars

\* "Frbc" applied a second time to a cell that has the two attributes of the
\* first time: it has these two again, and CENTER
C16_Witness ==
    /\ last.op = "style_spec"
    /\ last.n = 2
    /\ last.idx = 2
    /\ value = <<"F", "r", "b", "c">>
    /\ row[1].style = <<"Fg(RED)", "Bold">>
    /\ row[1].align = "CENTER"

RECURSIVE IsColorPos(_, _)
\* the character i of the specifier is at the place of a color: it follows an
\* F or a B that is not itself at the place of a color
IsColorPos(spec, i) ==
    i > 1 /\ spec[i - 1] \in {"F", "B"} /\ ~IsColorPos(spec, i - 1)

\* the attributes the character i of the specifier adds
AttrsAt(spec, i) ==
    IF IsColorPos(spec, i)
    THEN IF spec[i] \in ColorChars
         THEN <<IF spec[i - 1] = "F" THEN ForegroundColor(ColorMatch(spec[i]))
                ELSE BackgroundColor(ColorMatch(spec[i]))>>
         ELSE <<>>
    ELSE IF spec[i] = "b" THEN <<"Bold">>
    ELSE IF spec[i] = "i" THEN <<"Italic(true)">>
    ELSE IF spec[i] = "u" THEN <<"Underline(true)">>
    ELSE <<>>

\* the alignment of a specifier: that of its last c, l or r that is not at the
\* place of a color, LEFT without one
AlignOf(spec) ==
    LET at == {i \in 1..Len(spec) : ~IsColorPos(spec, i) /\ spec[i] \in {"c", "l", "r"}}
        i == CHOOSE k \in at : \A m \in at : m <= k
    IN  IF at = {} THEN "LEFT"
        ELSE IF spec[i] = "c" THEN "CENTER"
        ELSE IF spec[i] = "l" THEN "LEFT" ELSE "RIGHT"

\* C17: in style_spec the character after an F or a B is taken as a color: one
\* of the 16 color specifiers adds one foreground (after F) or background
\* (after B) attribute of that color; any other adds nothing and is not read
\* as a specifier; an F or a B at the end adds nothing; "FzBr" gives the one
\* attribute background red
C17_ColorFollowsFB ==
    last.op = "style_spec" =>
        /\ row[1].style = Flatten([i \in 1..Len(value) |-> AttrsAt(value, i)])
        /\ row[1].align = AlignOf(value)
        /\ \A c \in SpecChars : (ColorMatch(c) # NoColor) <=> (c \in ColorChars)
        /\ value = <<"F", "z", "B", "r">> => row[1].style = <<"Bg(RED)">>

\* "FzBr" applied: the one attribute background red, and no alignment RIGHT
C17_Witness ==
    /\ last.op = "style_spec"
    /\ value = <<"F", "z", "B", "r">>
    /\ row[1].style = <<"Bg(RED)">>
    /\ row[1].align = "LEFT"

\* the specifier without its unknown characters: those that are not at the
\* place of a color and are no specifier
Known(spec) ==
    Flatten([i \in 1..Len(spec) |->
        IF ~IsColorPos(spec, i) /\ spec[i] \notin DirectiveChars
        THEN <<>> ELSE <<spec[i]>>])

\* C18: style_spec never fails, and the unknown characters of a specifier have
\* no effect: the style and the alignment are those of the specifier without
\* them
C18_UnknownIgnored ==
    last.op = "style_spec" =>
        /\ last.ok
        /\ ~panicked
        /\ row[1].style = Cell_style_spec(row[1], Known(value)).style
        /\ row[1].align = Cell_style_spec(row[1], Known(value)).align

\* "zbzr" applied: Bold and RIGHT, as "br" gives
C18_Witness ==
    /\ last.op = "style_spec"
    /\ value = <<"z", "b", "z", "r">>
    /\ Known(value) = <<"b", "r">>
    /\ row[1].style = <<"Bold">>
    /\ row[1].align = "RIGHT"

\* the line idx (0-based) of the cell printed on its own, no character when
\* the cell has no such line
LineAt(idx) ==
    IF idx < Len(CellLines_get_lines(row[1].content))
    THEN CellLines_get_lines(row[1].content)[idx + 1] ELSE <<>>

\* C19: Cell::print of a line of display width w in a column width cw >= w,
\* skip_right_fill not set, writes cw display columns: the line and spaces
\* around it, for LEFT, CENTER and RIGHT; for a line index at or beyond the
\* number of lines of the cell it writes cw spaces
C19_PrintFillsColumn ==
    [][\A idx \in LineIndices, cw \in 0..MaxColWidth :
          (PrintCell(idx, cw, FALSE) /\ cw >= DisplayWidth(LineAt(idx))) =>
              /\ DisplayWidth(Bytes(out')) = cw
              /\ \E n \in 0..cw :
                    Bytes(out') = Repeat(" ", n) \o LineAt(idx)
                                  \o Repeat(" ", cw - DisplayWidth(LineAt(idx)) - n)
              /\ idx >= Len(CellLines_get_lines(row[1].content)) =>
                    Bytes(out') = Repeat(" ", cw)
      ]_vars

\* the line 2 of the cell of the two lines "a" and "bc", which it does not
\* have, printed in the width 3: 3 spaces
C19_Witness ==
    /\ last.op = "print_cell"
    /\ last.idx = 2
    /\ last.n = 3
    /\ Len(CellLines_get_lines(row[1].content)) = 2
    /\ Bytes(out) = <<" ", " ", " ">>

\* C20: with the deficit d = column width - width of the line, LEFT writes d
\* spaces after the line (none when skip_right_fill is set), RIGHT d spaces
\* before it, CENTER d \div 2 spaces before it and the d - d \div 2 others
\* after it: the left side gets the smaller half of an odd deficit
C20_DeficitSplit ==
    [][\A idx \in LineIndices, cw \in 0..MaxColWidth, skip \in BOOLEAN :
          (PrintCell(idx, cw, skip) /\ cw >= DisplayWidth(LineAt(idx))) =>
              LET d == cw - DisplayWidth(LineAt(idx))
              IN  /\ row[1].align = "LEFT" =>
                        Bytes(out') = LineAt(idx) \o Repeat(" ", IF skip THEN 0 ELSE d)
                  /\ row[1].align = "RIGHT" =>
                        Bytes(out') = Repeat(" ", d) \o LineAt(idx)
                  /\ (row[1].align = "CENTER" /\ ~skip) =>
                        Bytes(out') = Repeat(" ", d \div 2) \o LineAt(idx)
                                      \o Repeat(" ", d - d \div 2)
      ]_vars

\* "test" centered in the width 9: 2 spaces before, 3 after
C20_Witness ==
    /\ last.op = "print_cell"
    /\ last.idx = 0
    /\ last.n = 9
    /\ row[1].align = "CENTER"
    /\ Bytes(out) = <<" ", " ", "t", "e", "s", "t", " ", " ", " ">>

\* the slice the last text conversion was called on
Converted == [format |-> format, titles |-> titles, ptr |-> last.idx, len |-> last.n]

Rendering == Bytes(TableSlice_print(Table_as_ref))

\* the table is one that records can hold: the default format, and cells
\* that are what Cell::new makes of their content
PlainTable ==
    /\ format = FORMAT_DEFAULT
    /\ \A r \in AllRows \cup {titles[k] : k \in 1..Len(titles)} :
          \A j \in 1..Len(r) : r[j] = Cell_new(r[j].content)

\* C22 as claimed: the table imported from the records a table was exported
\* to renders as the table exported, with a title row or without one; the
\* tables are those of the default format whose cells are not aligned or
\* styled, which records do not hold
C22_CsvRoundTrip == [][(FromCsv /\ PlainTable) => Rendering' = Rendering]_vars

\* the lines of the first text of tests::table
FixtureRule == <<"+", "-", "-", "-", "-", "-", "+", "-", "-", "-", "-", "+", "-", "-", "-", "-", "-", "+">>

FixtureTitles == <<"|", " ", "t", "1", " ", " ", "|", " ", "t", "2", " ", "|", " ", "t", "3", " ", " ", "|">>

FixtureTitleRule == <<"+", "=", "=", "=", "=", "=", "+", "=", "=", "=", "=", "+", "=", "=", "=", "=", "=", "+">>

FixtureRowAbc == <<"|", " ", "a", " ", " ", " ", "|", " ", "b", "c", " ", "|", " ", "d", "e", "f", " ", "|">>

FixtureRowDef == <<"|", " ", "d", "e", "f", " ", "|", " ", "b", "c", " ", "|", " ", "a", " ", " ", " ", "|">>

\* the text tests::table expects with the title row
Fixture ==
    Flatten([k \in 1..7 |->
        <<FixtureRule, FixtureTitles, FixtureTitleRule, FixtureRowAbc, FixtureRule,
          FixtureRowDef, FixtureRule>>[k] \o <<NL>>])

\* C23: with the default format the table of title [t1, t2, t3] and rows
\* [a, bc, def], [def, bc, a] renders as the 7 lines of the fixture
C23_DefaultFixture ==
    (/\ last.op = "print"
     /\ format = FORMAT_DEFAULT
     /\ titles = <<<<TitleCell("1"), TitleCell("2"), TitleCell("3")>>>>
     /\ rows = <<RowAbc, RowDef>>) => Bytes(out) = Fixture

\* the table of the fixture has been rendered: 7 lines of 18 columns
C23_Witness ==
    /\ last.op = "print"
    /\ format = FORMAT_DEFAULT
    /\ titles # <<>>
    /\ rows = <<RowAbc, RowDef>>
    /\ Len(Bytes(out)) = 7 * 19
    /\ out.col_width = <<3, 2, 3>>

\* the lines of a text each of whose lines ends with a line terminator
SplitAtNL(s) ==
    LET nl == {k \in 1..Len(s) : s[k] = NL}
        end(i) == CHOOSE p \in nl : Cardinality({q \in nl : q < p}) = i - 1
    IN  [i \in 1..Cardinality(nl) |->
            SubSeq(s, IF i = 1 THEN 1 ELSE end(i - 1) + 1, end(i) - 1)]

\* the lines of the last render
OutLines == SplitAtNL(Bytes(out))

\* a separator character of the format, no character when it is absent
SepChar(c) == IF c = NoChar THEN <<>> ELSE <<c>>

\* the line i (0-based) of the cell j (0-based) of the row printed, filled to
\* the width w on both sides as its alignment says: w spaces when the row has
\* no cell j or the cell no line i
FilledCell(i, j, w) ==
    LET lines == IF j < Len(row) THEN row[j + 1].content.lines ELSE <<>>
        text == IF i < Len(lines) THEN lines[i + 1] ELSE <<>>
        align == IF j < Len(row) THEN row[j + 1].align ELSE "LEFT"
        d == IF DisplayWidth(text) < w THEN w - DisplayWidth(text) ELSE 0
        before == IF align = "LEFT" THEN 0 ELSE IF align = "RIGHT" THEN d ELSE d \div 2
    IN  [text |-> text, before |-> before, after |-> d - before]

\* the column j of the line i of the row printed; trimmed says whether the
\* spaces after the text of the cell are left out
ColumnOf(i, j, trimmed) ==
    LET c == FilledCell(i, j, out.col_width[j + 1])
    IN  Repeat(" ", format.pad_left)
        \o Repeat(" ", c.before) \o c.text \o Repeat(" ", IF trimmed THEN 0 ELSE c.after)
        \o Repeat(" ", format.pad_right)
        \o (IF j + 1 < Len(out.col_width) THEN SepChar(format.csep) ELSE <<>>)

\* the line i of the row printed; trimLast says whether the last column of a
\* format without right border is written without the spaces after its text
LineOf(i, trimLast) ==
    Repeat(" ", format.indent)
    \o SepChar(format.lborder)
    \o Flatten([k \in 1..Len(out.col_width) |->
           ColumnOf(i, k - 1,
                    trimLast /\ k = Len(out.col_width) /\ format.rborder = NoChar)])
    \o SepChar(format.rborder)

\* the height of the row printed: the greatest number of lines of its cells,
\* 1 at least
HeightOf == SetMax({1} \cup {Len(row[j].content.lines) : j \in 1..Len(row)})

\* C24 as claimed: Row::print writes height() lines, and every column of
\* every line holds the line of the cell filled to the width of the column
C24_RowLinesFilled ==
    last.op = "print_row" =>
        /\ Len(OutLines) = HeightOf
        /\ \A i \in 1..Len(OutLines) : OutLines[i] = LineOf(i - 1, FALSE)

\* C24: Row::print writes height() lines; the line i is the indent, the left
\* border, for every column j of col_width the left padding, the line i of
\* the cell j filled to col_width[j] (spaces when there is no such cell or
\* line), the right padding and the column separator when j is not the last
\* column, then the right border and the line terminator; the spaces after
\* the text of the last column are left out when the format has no right
\* border; cells beyond col_width are not printed
C24_RowLines ==
    last.op = "print_row" =>
        /\ Len(OutLines) = HeightOf
        /\ Bytes(out) = Flatten([i \in 1..HeightOf |-> LineOf(i - 1, TRUE) \o <<NL>>])

\* a row of three cells of three lines printed with two column widths: the
\* third cell is not printed, and the second column is of spaces
C24_Witness ==
    /\ last.op = "print_row"
    /\ row = <<CellTall, Cell_default, CellWide>>
    /\ out.col_width = <<2, 4>>
    /\ format = FORMAT_DEFAULT
    /\ Len(OutLines) = 3
    /\ OutLines[3] = <<"|", " ", "c", " ", " ", "|", " ", " ", " ", " ", " ", " ", "|">>

\* the parts of the last render that are line separators
SeparatorParts == {k \in 1..Len(out.events) : out.events[k].kind \in LinePositions}

\* the lines of the title row and of the rows of the table, with no rule
RowsOnly ==
    (IF titles # <<>> THEN Row_print(titles[1], format, out.col_width) ELSE <<>>)
    \o Flatten([k \in 1..Len(rows) |-> Row_print(rows[k], format, out.col_width)])

\* a rule of the width of the lines of the table: a line that starts with "+"
\* and holds "+" and "-" only
IsRule(line) == /\ line # <<>>
                /\ line[1] = "+"
                /\ \A k \in 1..Len(line) : line[k] \in {"+", "-"}

ColumnCells(column) ==
    LET has == {k \in 1..Len(rows) : Len(rows[k]) > column}
        at(i) == CHOOSE k \in has : Cardinality({q \in has : q < k}) = i - 1
    IN  [i \in 1..Cardinality(has) |-> rows[at(i)][column + 1]]

\* C26 as claimed: a column iterator iterated to its end has yielded, in row
\* order, the cell at its column of every row that has one
C26_ColumnIterYieldsAll ==
    (last.op = "next" /\ ~last.ok) => row = ColumnCells(last.idx)

\* C27: a set_element(element, column, r) that succeeds puts at the column
\* of the row a cell of the element, aligned LEFT and without style, whatever
\* the cell it replaces; the number of rows, the length of every row, every
\* other cell, the title and the format are as before
C27_SetElementFreshCell ==
    [][\A element \in SetElementPool, column \in CellIndices, r \in RowIndices :
          (SetElement(element, column, r) /\ last'.ok) =>
              /\ r < Len(rows) /\ column < Len(rows[r + 1])
              /\ Len(rows') = Len(rows)
              /\ \A k \in 1..Len(rows) :
                    /\ Len(rows'[k]) = Len(rows[k])
                    /\ \A j \in 1..Len(rows[k]) :
                          IF k = r + 1 /\ j = column + 1
                          THEN /\ rows'[k][j].content = element
                               /\ rows'[k][j].align = "LEFT"
                               /\ rows'[k][j].style = <<>>
                          ELSE rows'[k][j] = rows[k][j]
              /\ titles' = titles
              /\ format' = format
      ]_vars

\* the right-aligned bold cell of a row of two cells has been replaced by a
\* cell of the same two lines: it is aligned LEFT and has no style
C27_Witness ==
    /\ last.op = "set_element"
    /\ last.ok
    /\ Len(rows) = 2
    /\ last.idx = 1
    /\ rows[2] = <<[content |-> CellWide.content, align |-> "LEFT", style |-> <<>>], CellA>>
    /\ rows[1] = <<CellWide, CellA>>

\* the operations of a table that take &self
ReadOnlyOps == AsRefOps \cup RowsOps \cup {"slice"}

\* C28: an operation of a table that takes &self leaves the rows, the title
\* and the format as they were; a render that follows a render with no
\* mutation in between writes the same bytes; and a slice taken before still
\* points into the buffer of the rows and views the rows it viewed
C28_ReadOnlyKeepsTable ==
    [][last'.op \in ReadOnlyOps =>
          /\ rows' = rows
          /\ titles' = titles
          /\ format' = format
          /\ (last'.op \in RenderOps /\ out # NoOut) => Bytes(out') = Bytes(out)
          /\ Len(view') >= Len(view)
          /\ \A k \in 1..Len(view) :
                /\ view'[k] = view[k]
                /\ view[k].addr = value'.addr
                /\ view[k].slice.ptr + view[k].slice.len <= Len(rows')
                /\ SubSeq(rows', view[k].slice.ptr + 1,
                          view[k].slice.ptr + view[k].slice.len) = view[k].seen
      ]_vars

\* a table of two rows rendered twice while a slice of its second row, taken
\* before, is alive
C28_Witness ==
    /\ last.op = "print"
    /\ out # NoOut
    /\ rows = <<RowAbc, RowDef>>
    /\ Len(rows) = 2
    /\ Len(view) = 1
    /\ view[1].slice.ptr = 1
    /\ view[1].seen = <<rows[2]>>
    /\ value.cap = 2

\* the characters of the borders, of the column separator and of the line
\* separators of fmt are one column wide
OneColumnWide(fmt) ==
    /\ \A c \in {fmt.csep, fmt.lborder, fmt.rborder} : c # NoChar => CharWidth(c) = 1
    /\ \A p \in LinePositions :
          \A c \in {fmt.lsep[p].line, fmt.lsep[p].junc, fmt.lsep[p].ljunc, fmt.lsep[p].rjunc} :
             c # NoChar => CharWidth(c) = 1

RECURSIVE ColumnsWidth(_, _)
\* the sum over the columns of the column width and the two paddings
ColumnsWidth(fmt, col_width) ==
    IF col_width = <<>> THEN 0
    ELSE Head(col_width) + fmt.pad_left + fmt.pad_right
         + ColumnsWidth(fmt, Tail(col_width))

\* the display width of a line of a render with both borders
LineWidth(fmt, col_width) ==
    fmt.indent + 2 + ColumnsWidth(fmt, col_width)
    + (IF fmt.csep # NoChar THEN Max(0, Len(col_width) - 1) ELSE 0)

\* C29: in the render of a table whose format has a left border, a right
\* border and separator characters one column wide, every line (line
\* separators, lines of the title row and of the data rows) has the display
\* width indent + 2 + the sum over the columns of (column width + left padding
\* + right padding) + one per pair of adjacent columns when there is a column
\* separator
C29_EqualLineWidth ==
    (/\ last.op = "print"
     /\ format.lborder # NoChar
     /\ format.rborder # NoChar
     /\ OneColumnWide(format))
    => \A k \in 1..Len(OutLines) :
          DisplayWidth(OutLines[k]) = LineWidth(format, out.col_width)

\* padding(2, 2), a title, a row whose first cell has two lines and a shorter
\* row with a wide character: 8 lines of 17 columns
C29_Witness ==
    /\ last.op = "print"
    /\ format = TableFormat_padding(FORMAT_DEFAULT, 2, 2)
    /\ titles # <<>>
    /\ rows = <<<<CellWide, CellA>>, RowCjk>>
    /\ out.col_width = <<4, 2>>
    /\ Len(OutLines) = 8
    /\ \A k \in 1..8 : DisplayWidth(OutLines[k]) = 17

\* the row an event of kind Row of the last render printed
PrintedRow(e) == IF last.op = "print_row" THEN row ELSE rows[e.index + 1]

\* the rows the last render printed, the title row included
PrintedRows ==
    IF last.op = "print_row" THEN {row}
    ELSE {rows[k] : k \in 1..Len(rows)} \cup {titles[k] : k \in 1..Len(titles)}

\* the line of a row without column: indent, left border, right border
BareLine ==
    Repeat(" ", format.indent) \o SepChar(format.lborder) \o SepChar(format.rborder)

\* C30: a render without column (no row, rows without cell only, the cells of
\* the title not counted) evaluates no col_width.len() - 1 below zero and no
\* index outside col_width, and writes every row as get_height() lines of
\* indent, left border, right border and line terminator: one line for a row
\* without cell
C30_ZeroColumns ==
    (out # NoOut /\ out.col_width = <<>>) =>
        /\ \A r \in PrintedRows :
              /\ \A s \in Row_print_Subtractions(r, out.col_width) : s[1] >= s[2]
              /\ \A x \in Row_print_Indexings(r, out.col_width) : x[1] < x[2]
        /\ last.op = "print" =>
              \A x \in get_all_column_width_Indexings(Table_as_ref) : x[1] < x[2]
        /\ \A k \in 1..Len(out.events) :
              out.events[k].kind \in {"Row", "TitleRow"} =>
                 LET r == IF out.events[k].kind = "TitleRow" THEN titles[1]
                          ELSE PrintedRow(out.events[k])
                     lines == SplitAtNL(out.events[k].bytes)
                 IN  /\ Len(lines) = Row_get_height(r)
                     /\ r = Row_empty => Len(lines) = 1
                     /\ \A i \in 1..Len(lines) : lines[i] = BareLine

\* a table with a title and two rows without cell under indent(8): 7 lines,
\* each row written as 8 spaces and the two borders
C30_Witness ==
    /\ last.op = "print"
    /\ format = TableFormat_indent(FORMAT_DEFAULT, 8)
    /\ titles # <<>>
    /\ rows = <<Row_empty, Row_empty>>
    /\ out.col_width = <<>>
    /\ Len(OutLines) = 7
    /\ OutLines[4] = Repeat(" ", 8) \o <<"|", "|">>
    /\ OutLines[6] = OutLines[4]

====
